---------------------------- MODULE Spec2Model ----------------------------
(***************************************************************************)
(* A model of binance_historical_data.BinanceDataDumper                    *)
(* (src/src/binance_historical_data/data_dumper.py): the planning of the   *)
(* monthly and daily buckets of a symbol, the subtraction of the local     *)
(* inventory, the thread pool that downloads the remaining buckets, the    *)
(* retry loop of _download_raw_file with its backoff, and the circuit      *)
(* breaker and request counters shared by the threads of the pool.         *)
(*                                                                         *)
(* Dates are integers YYYYMMDD, so that the order of dates is the order of *)
(* integers.  Time is a clock of whole seconds.  A thread runs without     *)
(* interruption between the two places where it blocks: the network call   *)
(* and the backoff sleep.                                                  *)
(***************************************************************************)
EXTENDS Integers, Sequences, FiniteSets, TLC

\* ------------------------------------------------------------------------
\* The day and the clock of the host
\* ------------------------------------------------------------------------

\* The day the program runs (utcnow().date()), the fourth day of a month.
Today == 20170304

\* The clock value (time.time()) when the dumper is constructed.
StartTime == 1

\* ------------------------------------------------------------------------
\* Bounds of the model
\* ------------------------------------------------------------------------

\* The clock is not advanced by the environment past this value.
MaxTime == 400

\* The most threads the host can give to a pool.
MaxThreads == 3

\* ------------------------------------------------------------------------
\* Program constants
\* ------------------------------------------------------------------------

\* self._circuit_breaker_threshold
circuit_breaker_threshold == 5

\* self._circuit_breaker_reset_time, in seconds
circuit_breaker_reset_time == 300

\* max_retries, the default of _download_raw_file
max_retries == 3

\* datetime.date(year=2017, month=1, day=1)
PlatformFloor == 20170101

\* len(self.dict_new_points_saved_by_ticker) < 50: from this many tickers on
\* the short statistics are printed
short_statistics_from == 50

\* ------------------------------------------------------------------------
\* Calendar arithmetic (datetime.date, dateutil.relativedelta)
\* ------------------------------------------------------------------------

Min(a, b) == IF a <= b THEN a ELSE b

Max(a, b) == IF a >= b THEN a ELSE b

Year(d) == d \div 10000

Month(d) == (d \div 100) % 100

Day(d) == d % 100

MkDate(y, m, d) == y * 10000 + m * 100 + d

IsLeap(y) == (y % 4 = 0 /\ y % 100 # 0) \/ y % 400 = 0

DaysInMonth(y, m) ==
    IF m = 2 THEN (IF IsLeap(y) THEN 29 ELSE 28)
    ELSE IF m \in {4, 6, 9, 11} THEN 30 ELSE 31

\* d + relativedelta(days=1)
PlusDay(d) ==
    IF Day(d) < DaysInMonth(Year(d), Month(d)) THEN d + 1
    ELSE IF Month(d) < 12 THEN MkDate(Year(d), Month(d) + 1, 1)
    ELSE MkDate(Year(d) + 1, 1, 1)

\* d - relativedelta(days=1)
MinusDay(d) ==
    IF Day(d) > 1 THEN d - 1
    ELSE IF Month(d) > 1
         THEN MkDate(Year(d), Month(d) - 1, DaysInMonth(Year(d), Month(d) - 1))
         ELSE MkDate(Year(d) - 1, 12, 31)

\* d + relativedelta(months=1): the next month, the day clipped to its length
PlusMonth(d) ==
    LET y == IF Month(d) = 12 THEN Year(d) + 1 ELSE Year(d)
        m == IF Month(d) = 12 THEN 1 ELSE Month(d) + 1
    IN  MkDate(y, m, Min(Day(d), DaysInMonth(y, m)))

\* datetime.date(year=d.year, month=d.month, day=1)
FirstDayOfMonth(d) == MkDate(Year(d), Month(d), 1)

Periods == {"monthly", "daily"}

RECURSIVE DatesFrom(_, _, _)
DatesFrom(date_to_use, date_end, timeperiod_per_file) ==
    IF date_to_use <= date_end
    THEN <<date_to_use>> \o
         DatesFrom(IF timeperiod_per_file = "monthly"
                   THEN PlusMonth(date_to_use) ELSE PlusDay(date_to_use),
                   date_end, timeperiod_per_file)
    ELSE <<>>

\* _create_list_dates_for_timeperiod
create_list_dates_for_timeperiod(date_start, date_end, timeperiod_per_file) ==
    DatesFrom(date_start, date_end, timeperiod_per_file)

\* strftime("%Y-%m") or strftime("%Y-%m-%d") in create_filename: the date as
\* the file name carries it; the monthly name drops the day.
StrDate(date_obj, timeperiod_per_file) ==
    IF timeperiod_per_file = "monthly" THEN date_obj \div 100 ELSE date_obj

\* create_filename together with the directory of the symbol and period: the
\* identity of one file, local (csv) or remote (zip).
create_filename(ticker, date_obj, timeperiod_per_file) ==
    [ticker |-> ticker, period |-> timeperiod_per_file,
     date |-> StrDate(date_obj, timeperiod_per_file)]

SeqToSet(s) == {s[i] : i \in 1..Len(s)}

\* ------------------------------------------------------------------------
\* Asset classes, data types and frequencies
\* ------------------------------------------------------------------------

FUTURES_ASSET_CLASSES == {"um", "cm"}

DICT_DATA_TYPES_BY_ASSET ==
    [spot |-> {"aggTrades", "klines", "trades"},
     cm |-> {"aggTrades", "fundingRate", "klines", "trades",
             "indexPriceKlines", "markPriceKlines", "premiumIndexKlines"},
     um |-> {"aggTrades", "bookDepth", "bookTicker", "fundingRate",
             "indexPriceKlines", "klines", "liquidationSnapshot",
             "markPriceKlines", "metrics", "premiumIndexKlines", "trades"}]

AssetClasses == DOMAIN DICT_DATA_TYPES_BY_ASSET

DATA_FREQUENCY_NEEDED_FOR_TYPE ==
    {"klines", "indexPriceKlines", "markPriceKlines", "premiumIndexKlines"}

DATA_FREQUENCY_ENUM ==
    {"1s", "1m", "3m", "5m", "15m", "30m", "1h", "2h", "4h", "6h", "8h",
     "12h", "1d", "3d", "1w", "1mo"}

\* A _data_frequency that is kept for every data type: C28 must tell it from
\* the rule of __init__.
data_frequency_as_given(type, frequency) == frequency

\* __init__: self._data_frequency for the data_type and data_frequency given
init_data_frequency(type, frequency) ==
    IF type \in DATA_FREQUENCY_NEEDED_FOR_TYPE THEN frequency ELSE ""

\* A check that wants a known data_frequency for every data type: C31 must
\* tell it from the checks of __init__.
frequency_checked_for_every_type(asset, type, frequency) ==
    \/ asset \notin AssetClasses
    \/ type \notin DICT_DATA_TYPES_BY_ASSET[asset]
    \/ frequency \notin DATA_FREQUENCY_ENUM

\* __init__ raises ValueError: the asset class is unknown, or the data type
\* is not one of the asset class, or the data type needs a frequency and
\* data_frequency is not a known one.
init_raises(asset, type, frequency) ==
    \/ asset \notin AssetClasses
    \/ type \notin DICT_DATA_TYPES_BY_ASSET[asset]
    \/ /\ type \in DATA_FREQUENCY_NEEDED_FOR_TYPE
       /\ frequency \notin DATA_FREQUENCY_ENUM

\* self._max_concurrent_downloads for the argument given; 0 is None.
init_max_concurrent_downloads(type, max_concurrent) ==
    IF max_concurrent = 0 THEN (IF type = "trades" THEN 1 ELSE 5)
    ELSE max_concurrent

\* The arguments of __init__ that it accepts without a ValueError, as the
\* fields they leave in the dumper.
Dumper(asset, type, frequency) ==
    [asset_class |-> asset, data_type |-> type,
     data_frequency |-> init_data_frequency(type, frequency)]

Dumpers(assets, types, frequencies) ==
    {Dumper(a, ty, f) :
        a \in assets, ty \in types,
        f \in frequencies \cap DATA_FREQUENCY_ENUM}

\* The asset class of the dumpers of a data type where no other is named:
\* spot where spot has the data type, else um.
AssetOf(type) ==
    IF type \in DICT_DATA_TYPES_BY_ASSET["spot"] THEN "spot" ELSE "um"

\* ------------------------------------------------------------------------
\* Inputs
\* ------------------------------------------------------------------------

Tickers == {"BTCUSDT", "ETHUSDT"}

Threads == 1..MaxThreads

\* date_start=None, date_end=None: no date given
NoDate == 0

\* self._circuit_breaker_last_failure = None; time.time() is never 0
NoTime == 0

\* The keywords the handlers look for in the lower-cased message of an
\* error.  A message is modelled by the set of these keywords it contains.
Keywords == {"ssl", "eof", "protocol", "connection", "reset"}

\* The messages the errors of the model carry: a TLS failure, an unexpected
\* EOF, a protocol violation, "connection reset by peer", and a message with
\* no keyword (a timeout, a name that does not resolve, a full disk).
Messages ==
    {{"ssl"}, {"eof"}, {"protocol"}, {"connection", "reset"}, {}}

\* The status codes of the HTTPError responses of the model.
HTTPCodes == {404, 418, 403, 429, 503, 500}

\* The download returned and the archive was written.
OkResponse == [exc |-> "none", code |-> 200, msg |-> {}]

\* No response yet.
NoResponse == [exc |-> "none", code |-> 0, msg |-> {}]

\* urllib.error.HTTPError with the status code
Http(code) == [exc |-> "HTTPError", code |-> code, msg |-> {}]

HTTPErrors == {Http(c) : c \in HTTPCodes}

NotFoundResponse == Http(404)

URLErrors == {[exc |-> "URLError", code |-> 0, msg |-> m] : m \in Messages}

\* Any other exception of the attempt: a ConnectionResetError or ssl.SSLError
\* raised while the body is read, an OSError of open() or write().
OtherErrors == {[exc |-> "Exception", code |-> 0, msg |-> m] : m \in Messages}

\* What the network (or the write of the archive) can do to an attempt
\* whatever the remote holds.
Faults == (HTTPErrors \ {NotFoundResponse}) \cup URLErrors \cup OtherErrors

\* What the local disk can do: extractall of the archive raises, os.remove
\* of the archive raises, os.makedirs raises an OSError that is no
\* FileExistsError.
LocalFaults == {"unzip_error", "remove_error", "OSError"}

\* os.remove of a daily csv file raises (the file is open elsewhere, or the
\* directory is read-only).
DeleteFaults == {"delete_error"}

\* ------------------------------------------------------------------------
\* The state
\* ------------------------------------------------------------------------

VARIABLES
    max_concurrent_downloads,  \* self._max_concurrent_downloads
    asset_class,               \* self._asset_class
    data_type,                 \* self._data_type
    data_frequency,            \* self._data_frequency
    breaker,                   \* the circuit breaker fields of the dumper
    stats,                     \* the request counters of the dumper
    dict_new_points_saved_by_ticker,
    files,                     \* the csv files under path_dir_where_to_dump
    dirs,                      \* the directories of symbol and period there
    remote,                    \* the archives data.binance.vision holds
    catalog,                   \* how the listing of the bucket answers
    net_faults,                \* the faults the network shows in this run
    local_faults,              \* the faults the local disk shows in this run
    now,                       \* time.time()
    script,                    \* the arguments the caller gives dump_data
    mpc,                       \* where the main thread is
    run,                       \* the locals of dump_data
    pool,                      \* the locals of _download_data_for_1_ticker
    thr,                       \* the threads of the pool
    hist                       \* history: what has happened so far

vars == <<max_concurrent_downloads, asset_class, data_type, data_frequency,
          breaker, stats,
          dict_new_points_saved_by_ticker, files, dirs, remote, catalog,
          net_faults, local_faults, now, script, mpc, run, pool, thr, hist>>

config_vars == <<max_concurrent_downloads, asset_class, data_type,
                 data_frequency, remote, catalog, net_faults, local_faults,
                 script>>

\* ------------------------------------------------------------------------
\* The layout of the files
\* ------------------------------------------------------------------------

\* A path is the sequence of its segments; a path below
\* path_dir_where_to_dump is written from there on.
join(folder_path, name) == folder_path \o <<name>>

dirname(path) == SubSeq(path, 1, Len(path) - 1)

TwoDigits(n) == IF n < 10 THEN "0" \o ToString(n) ELSE ToString(n)

\* date_obj.strftime("%Y-%m") for a monthly file, else strftime("%Y-%m-%d")
strftime(date_obj, timeperiod_per_file) ==
    IF timeperiod_per_file = "monthly"
    THEN ToString(Year(date_obj)) \o "-" \o TwoDigits(Month(date_obj))
    ELSE ToString(Year(date_obj)) \o "-" \o TwoDigits(Month(date_obj))
         \o "-" \o TwoDigits(Day(date_obj))

\* create_filename: the name of the file as the server names it
file_name(ticker, date_obj, timeperiod_per_file, extension) ==
    ticker \o "-"
    \o (IF data_frequency # "" THEN data_frequency ELSE data_type)
    \o "-" \o strftime(date_obj, timeperiod_per_file) \o "." \o extension

\* _get_path_suffix_to_dir_with_data
get_path_suffix_to_dir_with_data(timeperiod_per_file, ticker) ==
    LET futures == IF asset_class \in FUTURES_ASSET_CLASSES
                   THEN <<"futures">> ELSE <<>>
        folder_path ==
            join(join(join(join(futures, asset_class), timeperiod_per_file),
                      data_type), ticker)
    IN  IF data_frequency # "" THEN join(folder_path, data_frequency)
        ELSE folder_path

\* get_local_dir_to_data
get_local_dir_to_data(ticker, timeperiod_per_file) ==
    get_path_suffix_to_dir_with_data(timeperiod_per_file, ticker)

\* The folder get_all_tickers_with_data lists.
tickers_folder(timeperiod_per_file) ==
    join(join(<<asset_class>>, timeperiod_per_file), data_type)

base_url == <<"https://data.binance.vision/data">>

\* The paths of one file: the archive that _download_data_for_1_ticker_1_date
\* asks for and where it saves it, the csv file that
\* get_all_dates_with_data_for_ticker looks for, and the directory that
\* _download_data_for_1_ticker makes.
Paths(ticker, date_obj, timeperiod_per_file) ==
    LET path_folder_suffix ==
            get_path_suffix_to_dir_with_data(timeperiod_per_file, ticker)
    IN  [ticker |-> ticker, period |-> timeperiod_per_file, date |-> date_obj,
         url_file_to_download |->
             join(base_url \o path_folder_suffix,
                  file_name(ticker, date_obj, timeperiod_per_file, "zip")),
         path_zip_raw_file |->
             join(path_folder_suffix,
                  file_name(ticker, date_obj, timeperiod_per_file, "zip")),
         path_where_to_save |->
             join(path_folder_suffix,
                  file_name(ticker, date_obj, timeperiod_per_file, "csv")),
         dir_where_to_save |->
             get_local_dir_to_data(ticker, timeperiod_per_file)]

\* No path was made yet.
NoPaths ==
    [ticker |-> "", period |-> "", date |-> NoDate,
     url_file_to_download |-> <<>>, path_zip_raw_file |-> <<>>,
     path_where_to_save |-> <<>>, dir_where_to_save |-> <<>>]

\* ------------------------------------------------------------------------
\* The circuit breaker
\* ------------------------------------------------------------------------

\* __init__: the breaker of a new dumper
NewBreaker ==
    [circuit_breaker_failures |-> 0,
     circuit_breaker_last_failure |-> NoTime,
     is_circuit_broken |-> FALSE]

\* A check that never finds the breaker open: C38 must tell it from the
\* check of the program.
check_finds_breaker_closed(b, t) == [open |-> FALSE, breaker |-> b]

\* _check_circuit_breaker at clock t: what it returns and the breaker it leaves
check_circuit_breaker(b, t) ==
    IF ~b.is_circuit_broken
    THEN [open |-> FALSE, breaker |-> b]
    ELSE IF b.circuit_breaker_last_failure # NoTime
            /\ t - b.circuit_breaker_last_failure >= circuit_breaker_reset_time
         THEN [open |-> FALSE,
               breaker |-> [b EXCEPT !.is_circuit_broken = FALSE,
                                     !.circuit_breaker_failures = 0]]
         ELSE [open |-> TRUE, breaker |-> b]

\* _record_download_failure at clock t
record_download_failure(b, t) ==
    [circuit_breaker_failures |-> b.circuit_breaker_failures + 1,
     circuit_breaker_last_failure |-> t,
     is_circuit_broken |->
        IF b.circuit_breaker_failures + 1 >= circuit_breaker_threshold
        THEN TRUE ELSE b.is_circuit_broken]

\* A success that closes the breaker too: C33 must tell it from the program.
success_closes_breaker(b) ==
    [b EXCEPT !.circuit_breaker_failures = 0, !.is_circuit_broken = FALSE]

\* _record_download_success
record_download_success(b) ==
    IF b.circuit_breaker_failures > 0
    THEN [b EXCEPT !.circuit_breaker_failures = 0]
    ELSE b

\* A 418 branch that records the failure and forces nothing: C4 must tell it
\* from the branch of the program.
record_ip_ban_only(b, t) == record_download_failure(b, t)

\* The 418 branch: the failure is recorded, then the breaker is forced open.
force_circuit_open(b, t) ==
    [record_download_failure(b, t) EXCEPT
        !.is_circuit_broken = TRUE,
        !.circuit_breaker_failures = circuit_breaker_threshold]

\* ------------------------------------------------------------------------
\* The error policy of _download_raw_file
\* ------------------------------------------------------------------------

Pow2(n) == IF n = 0 THEN 1 ELSE IF n = 1 THEN 2 ELSE IF n = 2 THEN 4 ELSE 8

\* The rate-limit branches: HTTPError 403, 429, 503 and the URLError whose
\* reason holds "ssl", "eof" or "protocol".
is_rate_limit_branch(r) ==
    \/ r.exc = "HTTPError" /\ r.code \in {403, 429, 503}
    \/ r.exc = "URLError" /\ r.msg \cap {"ssl", "eof", "protocol"} # {}

\* Whether the branch that handles r calls _record_download_failure.
records_failure(r) ==
    \/ r.exc = "HTTPError" /\ r.code \in {418, 403, 429, 503}
    \/ r.exc = "URLError" /\ r.msg \cap {"ssl", "eof", "protocol"} # {}
    \/ r.exc = "Exception" /\ r.msg \cap {"ssl", "connection", "reset"} # {}

\* The 404 branch
is_not_found(r) == r.exc = "HTTPError" /\ r.code = 404

\* The 418 branch
is_ip_ban(r) == r.exc = "HTTPError" /\ r.code = 418

\* A 404 branch that sets the counter of the breaker back to zero: C37 must
\* tell it from the branches of the program.
not_found_resets_breaker(r, b, t) ==
    IF is_ip_ban(r) THEN force_circuit_open(b, t)
    ELSE IF records_failure(r) THEN record_download_failure(b, t)
    ELSE IF is_not_found(r) THEN [b EXCEPT !.circuit_breaker_failures = 0]
    ELSE b

\* The breaker after the except clause of r has run at clock t.
breaker_after(r, b, t) ==
    IF is_ip_ban(r) THEN force_circuit_open(b, t)
    ELSE IF records_failure(r) THEN record_download_failure(b, t)
    ELSE b

\* The seconds the branch that handles r sleeps before the next attempt.
backoff(r, attempt) ==
    IF is_rate_limit_branch(r) THEN Pow2(attempt) * 5 ELSE Pow2(attempt)

\* A policy that retries every error while an attempt is left, 404 and 418
\* too: C3 must tell it from the policy of the program.
retries_every_error(r, attempt) == attempt < max_retries - 1

\* A policy with one attempt more: C30 must tell it from the policy of the
\* program.
retries_once_more(r, attempt) ==
    /\ ~is_not_found(r)
    /\ ~is_ip_ban(r)
    /\ attempt < max_retries

\* Whether the branch retries: 404 and 418 return at once, every other error
\* is retried while an attempt is left.
retries(r, attempt) ==
    /\ ~is_not_found(r)
    /\ ~is_ip_ban(r)
    /\ attempt < max_retries - 1

\* ------------------------------------------------------------------------
\* The request counters
\* ------------------------------------------------------------------------

NewStats ==
    [request_count |-> 0, successful_requests |-> 0, failed_requests |-> 0,
     not_found_requests |-> 0, active_connections |-> 0,
     max_concurrent_connections |-> 0]

\* The counters the threads of a pool update with "+= 1" or "-= 1", which
\* reads the field and then writes it, with no lock.
Counters ==
    {"request_count", "successful_requests", "failed_requests",
     "not_found_requests", "active_connections", "circuit_breaker_failures"}

\* The values of the counters a thread can read at one moment.
Snapshot(s, b) ==
    [c \in Counters |->
        IF c = "circuit_breaker_failures" THEN b.circuit_breaker_failures
        ELSE s[c]]

\* The value an update of counter c by a thread reads: the value of now, or,
\* for the one update `early` of the step (if any), the value the thread read
\* before other threads ran, th.stale[c].
Read(c, th, early) ==
    IF early = c THEN th.stale[c] ELSE Snapshot(stats, breaker)[c]

\* The head of an attempt: a connection more, a request more, the peak;
\* active and count are the values the two updates read.
track_attempt(s, active, count) ==
    [s EXCEPT !.active_connections = active + 1,
              !.request_count = count + 1,
              !.max_concurrent_connections = Max(@, active + 1)]

\* What the network has been asked and has answered since __init__: the
\* attempts made and how the calls ended.
\* A count that goes up by two: C34 must tell it from the program.
counted_twice(s, counter, read) == [s EXCEPT ![counter] = read + 2]

\* self._<counter> += 1, with the value the statement read
counted(s, counter, read) == [s EXCEPT ![counter] = read + 1]

NoneMade == [attempts |-> 0, successes |-> 0, not_found |-> 0, failed |-> 0]

\* ------------------------------------------------------------------------
\* The local inventory and the remote floor
\* ------------------------------------------------------------------------

\* get_all_dates_with_data_for_ticker: the dates of the list from 2017-01-01
\* to today whose csv file exists.
get_all_dates_with_data_for_ticker(ticker, timeperiod_per_file) ==
    SelectSeq(
        create_list_dates_for_timeperiod(PlatformFloor, Today,
                                         timeperiod_per_file),
        LAMBDA date_obj :
            create_filename(ticker, date_obj, timeperiod_per_file) \in files)

\* strptime of the date in a listed key: "%Y-%m" gives the first of the month.
KeyDate(key) == IF key.period = "monthly" THEN key.date * 100 + 1 ELSE key.date

\* The least date below min_date among the listed keys, else min_date.
MinListed(keys, min_date) ==
    LET below == {KeyDate(k) : k \in keys} \cap 0..(min_date - 1)
    IN  IF below = {} THEN min_date
        ELSE CHOOSE d \in below : \A e \in below : d <= e

\* How _get_list_all_available_files and the parsing of its keys can end: the
\* listing answers and every key parses; the first listing raises; the
\* listing of the monthly prefix answers and the one of the daily prefix
\* raises; a listing of two keys or more holds, after its first key, a key
\* whose date does not parse.
CatalogModes == {"ok", "down", "daily_down", "bad_key"}

\* Whether strptime raises in the loop over the listed keys.
ParseRaises(keys) == catalog = "bad_key" /\ Cardinality(keys) >= 2

\* The keys the loop has parsed when it ends: all of them, or, the listing
\* being in the order of the names and so of the dates, the earliest one.
ParsedKeys(keys) ==
    IF ParseRaises(keys)
    THEN {k \in keys : \A l \in keys : KeyDate(k) <= KeyDate(l)}
    ELSE keys

\* get_min_start_date_for_ticker: the earliest monthly archive listed before
\* the first day of the current month, else the earliest daily one before it,
\* else the first day of the current month; an exception of a listing or of
\* the parsing of a key is logged and leaves min_date as it is then.
get_min_start_date_for_ticker(ticker) ==
    LET min_date == FirstDayOfMonth(Today)
        listed(p) == {k \in remote : k.ticker = ticker /\ k.period = p}
        monthly == MinListed(ParsedKeys(listed("monthly")), min_date)
    IN  IF catalog = "down" THEN min_date
        ELSE IF ParseRaises(listed("monthly")) THEN monthly
        ELSE IF monthly < min_date THEN monthly
        ELSE IF catalog = "daily_down" THEN min_date
        ELSE MinListed(ParsedKeys(listed("daily")), min_date)

\* ------------------------------------------------------------------------
\* dict_new_points_saved_by_ticker, a defaultdict(dict)
\* ------------------------------------------------------------------------

EmptyDict == [t \in {} |-> 0]

\* d[ticker][timeperiod_per_file] = n
DictSet(d, ticker, timeperiod_per_file, n) ==
    LET old == IF ticker \in DOMAIN d THEN d[ticker] ELSE EmptyDict
        new == [p \in DOMAIN old \cup {timeperiod_per_file} |->
                   IF p = timeperiod_per_file THEN n ELSE old[p]]
    IN  [t \in DOMAIN d \cup {ticker} |-> IF t = ticker THEN new ELSE d[t]]

\* ------------------------------------------------------------------------
\* Construction
\* ------------------------------------------------------------------------

IdleThread ==
    [pc |-> "idle", date |-> NoDate, attempt |-> 0, wake_at |-> NoTime,
     sleeps |-> <<>>, resp |-> NoResponse, outcome |-> "none",
     unpack |-> "none", stale |-> Snapshot(NewStats, NewBreaker)]

NoPool ==
    [ticker |-> "", period |-> "", list_args |-> <<>>, next |-> 1,
     processes |-> 0, saved |-> {}, done |-> 0]

NoRun ==
    [list_trading_pairs |-> <<>>, i |-> 0, date_start |-> NoDate,
     date_end |-> NoDate, date_end_first_day_of_month |-> NoDate]

\* No call of _create_list_dates_for_timeperiod yet, for either period; else
\* the arguments of the call of the last pass of the period and list_dates.
NoPlan ==
    [p \in Periods |->
        [date_start |-> NoDate, date_end |-> NoDate, list_dates |-> <<>>]]

\* delete_outdated_daily_results was not called yet.
NotPruned == [status |-> "no", deleted |-> {}, unable_to_delete |-> {}]

NewHist ==
    [ncalls |-> 0, fetches |-> 0, all_saved |-> TRUE, first_all_saved |-> FALSE,
     consec_failed |-> 0, plan |-> NoPlan, min_start_date |-> EmptyDict,
     pruned |-> NotPruned, made |-> NoneMade, recorded |-> 0,
     paths |-> NoPaths, dispatched |-> {}]

\* Every archive of the two symbols the remote holds on Today: the months
\* before the current one and the days of the current month up to yesterday.
FullRemote ==
    {create_filename(t, d, "monthly") :
        t \in Tickers,
        d \in SeqToSet(DatesFrom(PlatformFloor,
                                 MinusDay(FirstDayOfMonth(Today)), "monthly"))}
    \cup {create_filename(t, d, "daily") :
        t \in Tickers, d \in SeqToSet(DatesFrom(FirstDayOfMonth(Today),
                                               MinusDay(Today), "daily"))}

\* The state after __init__, for the scripts, remotes, configurations and
\* local directories of one specification.
InitOf(dumpers, scripts, remotes, concurrency, scenarios, catalogs, locals) ==
    /\ max_concurrent_downloads \in concurrency
    /\ \E dumper \in dumpers :
           /\ dumper.data_type \in DICT_DATA_TYPES_BY_ASSET[dumper.asset_class]
           /\ asset_class = dumper.asset_class
           /\ data_type = dumper.data_type
           /\ data_frequency = dumper.data_frequency
    /\ breaker = NewBreaker
    /\ stats = NewStats
    /\ dict_new_points_saved_by_ticker = EmptyDict
    /\ files \in locals
    /\ dirs = {[ticker |-> f.ticker, period |-> f.period] : f \in files}
    /\ remote \in remotes
    /\ catalog \in catalogs
    /\ \E sc \in scenarios :
           net_faults = sc.net /\ local_faults = sc.local
    /\ now = StartTime
    /\ script \in scripts
    /\ mpc = "idle"
    /\ run = NoRun
    /\ pool = NoPool
    /\ thr = [w \in Threads |-> IdleThread]
    /\ hist = NewHist

\* The same with data_frequency="1m" and the asset class of each data type.
InitFrom(scripts, remotes, concurrency, types, scenarios, catalogs, locals) ==
    InitOf({Dumper(AssetOf(ty), ty, "1m") : ty \in types},
           scripts, remotes, concurrency, scenarios, catalogs, locals)

\* The state after __init__ when path_dir_where_to_dump is empty.
InitWith(scripts, remotes, concurrency, types, scenarios, catalogs) ==
    InitFrom(scripts, remotes, concurrency, types, scenarios, catalogs, {{}})

\* date_start of dump_data after its clamp to 2017-01-01
clamp_date_start(date_start) ==
    IF date_start = NoDate \/ date_start < PlatformFloor
    THEN PlatformFloor ELSE date_start

\* A date_end that is set when none is given and is not clamped: C13 must
\* tell it from the clamp of the program.
date_end_as_given(date_end) ==
    IF date_end = NoDate THEN MinusDay(Today) ELSE date_end

\* date_end of dump_data after its clamp to yesterday
clamp_date_end(date_end) ==
    IF date_end = NoDate \/ date_end > MinusDay(Today)
    THEN MinusDay(Today) ELSE date_end

\* ------------------------------------------------------------------------
\* dump_data, on the main thread
\* ------------------------------------------------------------------------

\* The entry of dump_data: the record of results is cleared and the dates
\* are clamped; then the loop over the tickers starts.
DumpData ==
    /\ mpc = "idle"
    /\ hist.ncalls < script.calls
    /\ LET date_start == clamp_date_start(script.date_start)
           date_end == clamp_date_end(script.date_end)
       IN  run' = [list_trading_pairs |-> script.tickers,
                   i |-> 1,
                   date_start |-> date_start,
                   date_end |-> date_end,
                   date_end_first_day_of_month |-> FirstDayOfMonth(date_end)]
    /\ dict_new_points_saved_by_ticker' = EmptyDict
    /\ mpc' = IF script.tickers = <<>> THEN "stats" ELSE "monthly"
    /\ hist' = [hist EXCEPT !.ncalls = @ + 1,
                            !.fetches = 0,
                            !.all_saved = TRUE,
                            !.first_all_saved =
                                IF hist.ncalls = 1 THEN hist.all_saved ELSE @,
                            !.plan = NoPlan,
                            !.min_start_date = EmptyDict,
                            !.dispatched = {}]
    /\ UNCHANGED <<config_vars, breaker, stats, files, dirs, now, pool, thr>>

\* os.makedirs of the directory of a symbol and period; FileExistsError when
\* another process made the directory since os.path.exists
MakedirsOutcomes == {"ok", "FileExistsError"} \cup (local_faults \cap {"OSError"})

\* Where the main thread goes after a pass over one ticker: from the monthly
\* pass to the daily one, from the daily pass to the next ticker or to the
\* statistics.
AfterPass(timeperiod_per_file) ==
    IF timeperiod_per_file = "monthly"
    THEN mpc' = "daily" /\ UNCHANGED run
    ELSE IF run.i < Len(run.list_trading_pairs)
         THEN mpc' = "monthly" /\ run' = [run EXCEPT !.i = @ + 1]
         ELSE mpc' = "stats" /\ UNCHANGED run

\* A pool with one thread for every task: C9 must tell it from the pool of
\* the program.
one_thread_per_task(n_args, max_concurrent) == n_args

\* processes = min(len(list_args), self._max_concurrent_downloads)
processes(n_args, max_concurrent) == Min(n_args, max_concurrent)

\* A date_start that is not raised: C12 must tell it from the program.
date_start_as_given(date_start, min_start_date) == date_start

\* date_start of _download_data_for_1_ticker after it is raised to the floor
raise_to_min_start_date(date_start, min_start_date) ==
    IF date_start < min_start_date THEN min_start_date ELSE date_start

\* _download_data_for_1_ticker up to the start of the pool: the start date is
\* raised to the remote floor, the dates are listed, the dates with a local
\* file are dropped, the directory is made; makedirs is how os.makedirs ends
\* if it is called.
download_data_for_1_ticker(ticker, date_start, date_end, timeperiod_per_file, makedirs) ==
    LET min_start_date == get_min_start_date_for_ticker(ticker)
        start == raise_to_min_start_date(date_start, min_start_date)
        list_dates ==
            create_list_dates_for_timeperiod(start, date_end,
                                             timeperiod_per_file)
        list_dates_with_data ==
            get_all_dates_with_data_for_ticker(ticker, timeperiod_per_file)
        list_dates_cleared ==
            IF script.is_to_update_existing THEN list_dates
            ELSE SelectSeq(list_dates,
                     LAMBDA date_obj :
                         date_obj \notin SeqToSet(list_dates_with_data))
        dir_where_to_save == [ticker |-> ticker, period |-> timeperiod_per_file]
        seen == [hist EXCEPT
                    !.plan[timeperiod_per_file] =
                        [date_start |-> start, date_end |-> date_end,
                         list_dates |-> list_dates],
                    !.min_start_date = (ticker :> min_start_date) @@ @]
    IN  IF list_dates_cleared = <<>>
        THEN /\ dict_new_points_saved_by_ticker' =
                    DictSet(dict_new_points_saved_by_ticker, ticker,
                            timeperiod_per_file, 0)
             /\ AfterPass(timeperiod_per_file)
             /\ hist' = seen
             /\ UNCHANGED <<dirs, pool, thr>>
        ELSE IF dir_where_to_save \notin dirs /\ makedirs = "OSError"
        THEN /\ mpc' = "raised"
             /\ hist' = [seen EXCEPT !.all_saved = FALSE]
             /\ UNCHANGED <<dict_new_points_saved_by_ticker, dirs, pool, thr,
                            run>>
        ELSE /\ dirs' = dirs \cup {dir_where_to_save}
             /\ pool' = [ticker |-> ticker,
                         period |-> timeperiod_per_file,
                         list_args |-> list_dates_cleared,
                         next |-> 1,
                         processes |-> processes(Len(list_dates_cleared),
                                                 max_concurrent_downloads),
                         saved |-> {},
                         done |-> 0]
             /\ thr' = [w \in Threads |-> IdleThread]
             /\ mpc' = "pool"
             /\ hist' = seen
             /\ UNCHANGED <<dict_new_points_saved_by_ticker, run>>

\* 1) Download all monthly data
MonthlyPass ==
    /\ mpc = "monthly"
    /\ IF /\ data_type # "metrics"
          /\ MinusDay(run.date_end_first_day_of_month) > run.date_start
       THEN \E makedirs \in MakedirsOutcomes :
                download_data_for_1_ticker(
                    run.list_trading_pairs[run.i], run.date_start,
                    MinusDay(run.date_end_first_day_of_month), "monthly",
                    makedirs)
       ELSE /\ mpc' = "daily"
            /\ UNCHANGED <<dict_new_points_saved_by_ticker, dirs, pool, thr,
                           run, hist>>
    /\ UNCHANGED <<config_vars, breaker, stats, files, now>>

\* 2) Download all daily data
DailyPass ==
    /\ mpc = "daily"
    /\ \E makedirs \in MakedirsOutcomes :
           download_data_for_1_ticker(
               run.list_trading_pairs[run.i],
               IF data_type = "metrics" THEN run.date_start
               ELSE run.date_end_first_day_of_month,
               run.date_end, "daily", makedirs)
    /\ UNCHANGED <<config_vars, breaker, stats, files, now>>

\* A pool that is left once every task is handed to a thread: C27 must tell
\* it from the pool of the program.
every_task_taken(p) == p.next > Len(p.list_args)

\* list(...) over the generator of the pool returns: every task has come
\* back.
every_task_done(p) == p.done = Len(p.list_args)

\* The pool has run every task: the dates that came back are counted.
PoolJoin ==
    /\ mpc = "pool"
    /\ every_task_done(pool)
    /\ dict_new_points_saved_by_ticker' =
           DictSet(dict_new_points_saved_by_ticker, pool.ticker, pool.period,
                   Cardinality(pool.saved))
    /\ AfterPass(pool.period)
    /\ pool' = NoPool
    /\ thr' = [w \in Threads |-> IdleThread]
    /\ UNCHANGED <<config_vars, breaker, stats, files, dirs, now, hist>>

\* ------------------------------------------------------------------------
\* dump_specific_pairs, on the main thread
\* ------------------------------------------------------------------------

\* The keys of pairs_by_symbol, in the order a dict keeps: that of the first
\* pair of each symbol.
RECURSIVE symbols_of(_)
symbols_of(pairs_to_dump) ==
    IF pairs_to_dump = <<>> THEN <<>>
    ELSE LET n == Len(pairs_to_dump)
             before == symbols_of(SubSeq(pairs_to_dump, 1, n - 1))
             symbol == pairs_to_dump[n][1]
         IN  IF symbol \in SeqToSet(before) THEN before
             ELSE Append(before, symbol)

\* pairs_by_symbol[symbol]: the dates of the pairs of the symbol, in order
dates_of(pairs_to_dump, symbol) ==
    LET pairs == SelectSeq(pairs_to_dump, LAMBDA pair : pair[1] = symbol)
    IN  [k \in 1..Len(pairs) |-> pairs[k][2]]

\* The entry of dump_specific_pairs: the record of results is cleared and
\* the pairs are put in a dict by symbol; then the loop over the symbols
\* starts.
DumpSpecificPairs ==
    /\ mpc = "idle"
    /\ hist.ncalls < script.calls
    /\ run' = [NoRun EXCEPT
                  !.list_trading_pairs = symbols_of(script.pairs_to_dump),
                  !.i = 1]
    /\ dict_new_points_saved_by_ticker' = EmptyDict
    /\ mpc' = IF script.pairs_to_dump = <<>> THEN "stats" ELSE "pairs"
    /\ hist' = [hist EXCEPT !.ncalls = @ + 1,
                            !.fetches = 0,
                            !.all_saved = TRUE,
                            !.first_all_saved =
                                IF hist.ncalls = 1 THEN hist.all_saved ELSE @,
                            !.dispatched = {}]
    /\ UNCHANGED <<config_vars, breaker, stats, files, dirs, now, pool, thr>>

\* One round of the loop over the symbols, up to the start of the pool: the
\* daily directory is made, a FileExistsError is passed over, and every date
\* of the symbol is a task of the pool, which has max_concurrent_downloads
\* threads.  A list of tuples leaves no symbol without a date.
PairsPass ==
    /\ mpc = "pairs"
    /\ LET symbol == run.list_trading_pairs[run.i]
           dates == dates_of(script.pairs_to_dump, symbol)
           dir_where_to_save == [ticker |-> symbol, period |-> "daily"]
       IN  \E makedirs \in MakedirsOutcomes :
               IF dir_where_to_save \notin dirs /\ makedirs = "OSError"
               THEN /\ mpc' = "raised"
                    /\ hist' = [hist EXCEPT !.all_saved = FALSE]
                    /\ UNCHANGED <<dirs, pool, thr>>
               ELSE /\ dirs' = dirs \cup {dir_where_to_save}
                    /\ pool' = [ticker |-> symbol,
                                period |-> "daily",
                                list_args |-> dates,
                                next |-> 1,
                                processes |-> max_concurrent_downloads,
                                saved |-> {},
                                done |-> 0]
                    /\ thr' = [w \in Threads |-> IdleThread]
                    /\ mpc' = "pool"
                    /\ UNCHANGED hist
    /\ UNCHANGED <<config_vars, breaker, stats,
                   dict_new_points_saved_by_ticker, files, now, run>>

\* The pool of a symbol has run every task: the dates that came back are
\* counted, and the loop goes to the next symbol or to the statistics.
PairsJoin ==
    /\ mpc = "pool"
    /\ every_task_done(pool)
    /\ dict_new_points_saved_by_ticker' =
           DictSet(dict_new_points_saved_by_ticker, pool.ticker, "daily",
                   Cardinality(pool.saved))
    /\ IF run.i < Len(run.list_trading_pairs)
       THEN mpc' = "pairs" /\ run' = [run EXCEPT !.i = @ + 1]
       ELSE mpc' = "stats" /\ UNCHANGED run
    /\ pool' = NoPool
    /\ thr' = [w \in Threads |-> IdleThread]
    /\ UNCHANGED <<config_vars, breaker, stats, files, dirs, now, hist>>

\* Whether _print_short_dump_statististics raises KeyError: it reads
\* dict_stats["monthly"], and dict_stats["daily"] if that is 0, for every
\* ticker of the record.
short_statistics_raise(d) ==
    \E t \in DOMAIN d :
        \/ "monthly" \notin DOMAIN d[t]
        \/ d[t]["monthly"] = 0 /\ "daily" \notin DOMAIN d[t]

\* _print_dump_statistics, and dump_data returns: the full statistics, which
\* read the record with dict.get, for fewer than 50 tickers, else the short
\* ones.
PrintDumpStatistics ==
    /\ mpc = "stats"
    /\ IF /\ Cardinality(DOMAIN dict_new_points_saved_by_ticker)
                 >= short_statistics_from
          /\ short_statistics_raise(dict_new_points_saved_by_ticker)
       THEN mpc' = "raised" /\ UNCHANGED run
       ELSE mpc' = "idle" /\ run' = NoRun
    /\ UNCHANGED <<config_vars, breaker, stats,
                   dict_new_points_saved_by_ticker, files, dirs, now, pool,
                   thr, hist>>

\* The directories below a folder (os.listdir and os.path.isdir): the next
\* segment of every directory of a symbol that lies below it.
listdir(folder_path) ==
    {get_local_dir_to_data(d.ticker, d.period)[Len(folder_path) + 1] :
        d \in {x \in dirs :
                  LET made == get_local_dir_to_data(x.ticker, x.period)
                  IN  /\ Len(made) > Len(folder_path)
                      /\ SubSeq(made, 1, Len(folder_path)) = folder_path}}

\* get_all_tickers_with_data: the folder it lists is
\* asset_class/timeperiod/data_type, with no futures segment.
get_all_tickers_with_data(timeperiod_per_file) ==
    listdir(tickers_folder(timeperiod_per_file))

\* The daily files of a symbol that delete_outdated_daily_results removes:
\* those of the saved days whose first day of month is a saved month.
outdated_daily_files(ticker) ==
    LET list_saved_months_dates ==
            SeqToSet(get_all_dates_with_data_for_ticker(ticker, "monthly"))
        list_saved_days_dates ==
            SeqToSet(get_all_dates_with_data_for_ticker(ticker, "daily"))
    IN  {create_filename(ticker, date_saved_day, "daily") :
            date_saved_day \in
                {d \in list_saved_days_dates :
                    FirstDayOfMonth(d) \in list_saved_months_dates}}

\* delete_outdated_daily_results, called by the script after its calls of
\* dump_data.  os.listdir raises FileNotFoundError when the folder it lists
\* was not made: no daily folder yet, or an asset class whose folders lie
\* under futures.  An os.remove that raises is logged and the loop goes on.
DeleteOutdatedDailyResults ==
    /\ mpc = "idle"
    /\ hist.ncalls = script.calls
    /\ hist.pruned.status = "no"
    /\ IF listdir(tickers_folder("daily")) = {}
       THEN /\ hist' = [hist EXCEPT !.pruned.status = "FileNotFoundError"]
            /\ UNCHANGED files
       ELSE LET tickers == get_all_tickers_with_data("daily")
                outdated == UNION {outdated_daily_files(t) : t \in tickers}
            IN  \E unable \in IF "delete_error" \in local_faults
                              THEN SUBSET outdated ELSE {{}} :
                    /\ files' = files \ (outdated \ unable)
                    /\ hist' = [hist EXCEPT !.pruned =
                                    [status |-> "done",
                                     deleted |-> outdated \ unable,
                                     unable_to_delete |-> unable]]
    /\ UNCHANGED <<config_vars, breaker, stats,
                   dict_new_points_saved_by_ticker, dirs, now, mpc, run, pool,
                   thr>>

\* ------------------------------------------------------------------------
\* _download_data_for_1_ticker_1_date, on a thread of the pool
\* ------------------------------------------------------------------------

\* The archive (remote) or csv file (local) of the task of thread w.
TaskFile(w) == create_filename(pool.ticker, thr[w].date, pool.period)

\* The threads after a step of thread w that leaves it as th: any of the other
\* threads that wait for the network or sleep may come back in the meantime
\* and read the counters as the step leaves them, without writing them yet.
Interleaved(w, th) ==
    LET after == [thr EXCEPT ![w] = th]
        seen == Snapshot(stats', breaker')
        waiting == {v \in Threads \ {w} :
                       /\ after[v].pc \in {"net", "sleep"}
                       /\ after[v].stale # seen}
    IN  {[v \in Threads |->
             IF v \in reading THEN [after[v] EXCEPT !.stale = seen]
             ELSE after[v]] : reading \in SUBSET waiting}

\* Thread w goes on to wait, for the network or in a sleep, as th.
Waits(w, th) ==
    thr' \in Interleaved(w, [th EXCEPT !.stale = Snapshot(stats', breaker')])

\* The call of thread w returns: date_obj if returned, else None.  outcome is
\* how _download_raw_file ended, and recorded the failures recorded since the
\* counter of the breaker was last reset.
TaskReturns(w, th, returned, outcome, recorded) ==
    /\ thr' \in Interleaved(w, [th EXCEPT !.pc = "idle",
                                          !.outcome = outcome,
                                          !.stale = IdleThread.stale])
    /\ pool' = [pool EXCEPT
                   !.done = @ + 1,
                   !.saved = IF returned THEN @ \cup {th.date} ELSE @]
    /\ hist' = [hist EXCEPT
                   !.all_saved = @ /\ returned,
                   !.consec_failed = IF outcome = "Failed" THEN @ + 1 ELSE 0,
                   !.made.successes =
                       IF outcome = "Saved" THEN @ + 1 ELSE @,
                   !.made.not_found =
                       IF outcome = "NotFound" THEN @ + 1 ELSE @,
                   !.made.failed =
                       IF outcome = "Failed" THEN @ + 1 ELSE @,
                   !.recorded = recorded]

\* A free thread takes the next task and enters _download_raw_file: the
\* breaker is checked; if it is open the call returns 0 at once, else the
\* first attempt is counted and its request is sent.
BeginFetch(w) ==
    /\ mpc = "pool"
    /\ w <= pool.processes
    /\ thr[w].pc = "idle"
    /\ pool.next <= Len(pool.list_args)
    /\ LET chk == check_circuit_breaker(breaker, now)
           th == [IdleThread EXCEPT !.date = pool.list_args[pool.next]]
       IN  /\ breaker' = chk.breaker
           /\ IF chk.open
              THEN /\ UNCHANGED stats
                   /\ thr' \in Interleaved(w, [th EXCEPT
                                                  !.outcome = "Skipped"])
                   /\ pool' = [pool EXCEPT !.next = @ + 1, !.done = @ + 1]
                   /\ hist' = [hist EXCEPT
                                  !.fetches = @ + 1,
                                  !.all_saved = FALSE,
                                  !.consec_failed = 0,
                                  !.dispatched =
                                      @ \cup {create_filename(pool.ticker,
                                                  th.date, pool.period)}]
              ELSE /\ stats' = track_attempt(stats, stats.active_connections,
                                             stats.request_count)
                   /\ Waits(w, [th EXCEPT !.pc = "net"])
                   /\ pool' = [pool EXCEPT !.next = @ + 1]
                   /\ hist' = [hist EXCEPT
                                  !.fetches = @ + 1,
                                  !.made.attempts = @ + 1,
                                  !.recorded =
                                      IF chk.breaker = breaker THEN @ ELSE 0,
                                  !.dispatched =
                                      @ \cup {create_filename(pool.ticker,
                                                  th.date, pool.period)}]
    /\ UNCHANGED <<config_vars, dict_new_points_saved_by_ticker, files, dirs,
                   now, mpc, run>>

\* _check_circuit_breaker finds the breaker broken and the reset time passed
\* since the last failure: it is about to reset the breaker.
cooldown_passed(b, t) ==
    /\ b.is_circuit_broken
    /\ b.circuit_breaker_last_failure # NoTime
    /\ t - b.circuit_breaker_last_failure >= circuit_breaker_reset_time

\* A free thread takes the next task and enters _check_circuit_breaker, which
\* reads the breaker and the clock and finds the reset time passed (lines
\* 826-832); the reset is logged before the fields are written, and other
\* threads run in between.
ReadsCooldown(w) ==
    /\ mpc = "pool"
    /\ w <= pool.processes
    /\ thr[w].pc = "idle"
    /\ pool.next <= Len(pool.list_args)
    /\ cooldown_passed(breaker, now)
    /\ LET th == [IdleThread EXCEPT !.date = pool.list_args[pool.next],
                                    !.pc = "reset"]
       IN  /\ thr' = [thr EXCEPT ![w] = th]
           /\ pool' = [pool EXCEPT !.next = @ + 1]
           /\ hist' = [hist EXCEPT
                          !.fetches = @ + 1,
                          !.dispatched =
                              @ \cup {create_filename(pool.ticker, th.date,
                                                      pool.period)}]
    /\ UNCHANGED <<config_vars, breaker, stats,
                   dict_new_points_saved_by_ticker, files, dirs, now, mpc,
                   run>>

\* The thread writes the reset (lines 838-839), _check_circuit_breaker
\* returns False, and the first attempt is counted and its request is sent.
ResetsBreaker(w) ==
    /\ thr[w].pc = "reset"
    /\ breaker' = [breaker EXCEPT !.is_circuit_broken = FALSE,
                                  !.circuit_breaker_failures = 0]
    /\ stats' = track_attempt(stats, stats.active_connections,
                              stats.request_count)
    /\ Waits(w, [thr[w] EXCEPT !.pc = "net"])
    /\ hist' = [hist EXCEPT !.made.attempts = @ + 1, !.recorded = 0]
    /\ UNCHANGED <<config_vars, dict_new_points_saved_by_ticker, files, dirs,
                   now, mpc, run, pool>>

\* zipfile extractall and os.remove of the archive, after a download
UnpackOutcomes == {"ok"} \cup (local_faults \cap {"unzip_error", "remove_error"})

\* The responses the attempt of thread w can get: the archive if the remote
\* holds it, 404 if not, and the faults of the network.
Responses(w) ==
    (IF TaskFile(w) \in remote THEN {OkResponse} ELSE {NotFoundResponse})
    \cup net_faults

\* A call that returns the date once the archive is downloaded, however the
\* extraction and the deletion end: C21 must tell it from the program.
returns_date_of_download(unpack) == TRUE

\* Whether _download_data_for_1_ticker_1_date returns date_obj after the
\* download: it returns None if extractall or os.remove raises.
returns_date_obj(unpack) == unpack = "ok"

\* An extraction that leaves the csv file even when it raises: C40 must tell
\* it from the extraction of the program.
extractall_leaves_file(local, file, unpack) == local \cup {file}

\* zip_ref.extractall of the archive of file: the csv file is on the disk
\* unless the extraction raised.
extractall(local, file, unpack) ==
    IF unpack = "unzip_error" THEN local ELSE local \cup {file}

\* The request returned and the archive is written: the success is recorded;
\* then the archive is extracted and deleted, and unpack is how that ends.
\* early is the update that read its counter before other threads ran.
Downloaded(w, unpack, early) ==
    /\ breaker' = record_download_success(breaker)
    /\ stats' = [counted(stats, "successful_requests",
                         Read("successful_requests", thr[w], early))
                    EXCEPT !.active_connections =
                               Read("active_connections", thr[w], early) - 1]
    /\ files' = extractall(files, TaskFile(w), unpack)
    /\ TaskReturns(w, [thr[w] EXCEPT !.resp = OkResponse,
                                     !.unpack = unpack],
                   returns_date_obj(unpack), "Saved", 0)

\* The attempt raised r: the except clause of r.  The connection is counted
\* out; the 404 branch counts a file not found and returns 0; the other
\* branches record the failure or not, and sleep and go on to the next
\* attempt, or count a failed request and return 0.  early is the update
\* that read its counter before other threads ran.
Raised(w, r, early) ==
    LET th == [thr[w] EXCEPT !.resp = r]
        closed == [stats EXCEPT
                      !.active_connections =
                          Read("active_connections", th, early) - 1]
        failures == Read("circuit_breaker_failures", th, early)
        recorded ==
            breaker_after(
                r, [breaker EXCEPT !.circuit_breaker_failures = hist.recorded],
                now).circuit_breaker_failures
    IN  /\ files' = files
        /\ breaker' =
               breaker_after(
                   r, [breaker EXCEPT !.circuit_breaker_failures = failures],
                   now)
        /\ IF retries(r, th.attempt)
           THEN /\ stats' = closed
                /\ Waits(w, [th EXCEPT
                                !.pc = "sleep",
                                !.wake_at = now + backoff(r, th.attempt),
                                !.sleeps = Append(@, backoff(r, th.attempt))])
                /\ hist' = [hist EXCEPT !.recorded = recorded]
                /\ UNCHANGED pool
           ELSE IF is_not_found(r)
           THEN /\ stats' = counted(closed, "not_found_requests",
                                    Read("not_found_requests", th, early))
                /\ TaskReturns(w, th, FALSE, "NotFound", recorded)
           ELSE /\ stats' = counted(closed, "failed_requests",
                                    Read("failed_requests", th, early))
                /\ TaskReturns(w, th, FALSE, "Failed", recorded)

\* The updates of the step of an attempt of thread w that ends with r, one
\* of which can have read its counter early; "none" for none.
EarlyReads(w, r) ==
    {"none"} \cup
        {c \in (IF r = OkResponse
                THEN {"successful_requests", "active_connections"}
                ELSE {"active_connections"}
                     \cup (IF records_failure(r)
                           THEN {"circuit_breaker_failures"} ELSE {})
                     \cup (IF retries(r, thr[w].attempt) THEN {}
                           ELSE IF is_not_found(r)
                           THEN {"not_found_requests"}
                           ELSE {"failed_requests"})) :
            thr[w].stale[c] # Snapshot(stats, breaker)[c]}

\* The request of thread w ends, with the archive or with an error.
NetResponse(w) ==
    /\ thr[w].pc = "net"
    /\ \E r \in Responses(w) :
       \E early \in EarlyReads(w, r) :
           IF r = OkResponse
           THEN \E unpack \in UnpackOutcomes : Downloaded(w, unpack, early)
           ELSE Raised(w, r, early)
    /\ UNCHANGED <<config_vars, dict_new_points_saved_by_ticker, dirs, now,
                   mpc, run>>

\* time.sleep returns and the loop goes to the next attempt, which is
\* counted and sent.  One of the two updates can have read its counter
\* early.
Wake(w) ==
    /\ thr[w].pc = "sleep"
    /\ now' = Max(now, thr[w].wake_at)
    /\ \E early \in {"none"} \cup
                     {c \in {"active_connections", "request_count"} :
                         thr[w].stale[c] # stats[c]} :
           stats' = track_attempt(stats,
                                  Read("active_connections", thr[w], early),
                                  Read("request_count", thr[w], early))
    /\ UNCHANGED breaker
    /\ Waits(w, [thr[w] EXCEPT !.pc = "net",
                               !.attempt = @ + 1,
                               !.resp = NoResponse])
    /\ hist' = [hist EXCEPT !.made.attempts = @ + 1]
    /\ UNCHANGED <<config_vars, dict_new_points_saved_by_ticker, files, dirs,
                   mpc, run, pool>>

\* ------------------------------------------------------------------------
\* The environment
\* ------------------------------------------------------------------------

\* The clock steps the environment takes: one second short of the reset time
\* of the breaker, and the reset time.
TickSteps == {circuit_breaker_reset_time - 1, circuit_breaker_reset_time}

\* Time passes.  The clock is read by _check_circuit_breaker alone, and it
\* is used there only when the breaker is broken, against a time stamp taken
\* when or after it broke: the model lets the time pass where it is
\* observed, before a call that finds the breaker broken, and lets none pass
\* elsewhere but the sleeps.
Tick ==
    /\ breaker.is_circuit_broken
    /\ \E w \in Threads : ENABLED BeginFetch(w)
    /\ \E d \in TickSteps : now + d <= MaxTime /\ now' = now + d
    /\ UNCHANGED <<config_vars, breaker, stats,
                   dict_new_points_saved_by_ticker, files, dirs, mpc, run,
                   pool, thr, hist>>

\* ------------------------------------------------------------------------
\* Specifications
\* ------------------------------------------------------------------------

\* A script that calls dump_data `calls` times with the same arguments.
Script(tickers, date_start, date_end, update, calls) ==
    [tickers |-> tickers, date_start |-> date_start, date_end |-> date_end,
     is_to_update_existing |-> update, calls |-> calls, pairs_to_dump |-> <<>>]

\* The arguments of the calls of dump_specific_pairs of a script:
\* pairs_to_dump is a list of (symbol, date) tuples.
PairsScript(pairs_to_dump, update, calls) ==
    [tickers |-> <<>>, date_start |-> NoDate, date_end |-> NoDate,
     is_to_update_existing |-> update, calls |-> calls,
     pairs_to_dump |-> pairs_to_dump]

\* n symbols that the remote does not hold: "SYM1", "SYM2", ...
NewTickers(n) == [i \in 1..n |-> "SYM" \o ToString(i)]

\* The fault scenarios of a run: no fault, one kind of fault of the network
\* or of the local disk, or one of the mixed pairs.
Scenarios ==
    {[net |-> {}, local |-> {}]}
    \cup {[net |-> {f}, local |-> {}] : f \in Faults}
    \cup {[net |-> {}, local |-> {l}] : l \in LocalFaults}
    \cup {[net |-> {Http(403), Http(500)}, local |-> {}],
          [net |-> {Http(403), Http(418)}, local |-> {}]}

\* The remote with the archive of yesterday not published yet.
LateRemote ==
    FullRemote \ {create_filename(t, MinusDay(Today), "daily") : t \in Tickers}

\* The scenarios of the runs with two threads: those where no request is
\* tried again, and those where the network fails.
PoolScenarios ==
    {[net |-> {}, local |-> {}],
     [net |-> {}, local |-> {"unzip_error"}]}

FaultyPoolScenarios ==
    {[net |-> {Http(403)}, local |-> {}],
     [net |-> {Http(418)}, local |-> {}],
     [net |-> {Http(500)}, local |-> {}]}

\* One call of dump_data for one symbol: with one thread, from February on,
\* under every scenario; with two threads, for the three days of March, and
\* for its first two days when the network fails.
Init ==
    \/ InitWith({Script(<<"BTCUSDT">>, 20170201, NoDate, FALSE, 1)},
                {FullRemote, LateRemote}, {1}, {"klines"}, Scenarios, {"ok"})
    \/ InitWith({Script(<<"BTCUSDT">>, 20170301, NoDate, FALSE, 1)},
                {FullRemote, LateRemote}, {2}, {"klines"}, PoolScenarios,
                {"ok"})
    \/ InitWith({Script(<<"BTCUSDT">>, 20170301, 20170302, FALSE, 1)},
                {FullRemote}, {2}, {"klines"}, FaultyPoolScenarios, {"ok"})

Next ==
    \/ DumpData
    \/ MonthlyPass
    \/ DailyPass
    \/ PoolJoin
    \/ PrintDumpStatistics
    \/ DeleteOutdatedDailyResults
    \/ \E w \in Threads : BeginFetch(w)
    \/ \E w \in Threads : NetResponse(w)
    \/ \E w \in Threads : Wake(w)
    \/ Tick

Spec == Init /\ [][Next]_vars

\* Runs that fail fetch after fetch: two calls of dump_data with no dates
\* given and one thread, the network answering 500 where it fails; and one
\* such call with the network answering 418.
InitBreaker ==
    \/ InitWith({Script(<<"BTCUSDT">>, NoDate, NoDate, FALSE, 2)},
                {FullRemote}, {1}, {"klines"},
                {[net |-> {Http(500)}, local |-> {}]}, {"ok"})
    \/ InitWith({Script(<<"BTCUSDT">>, NoDate, NoDate, FALSE, 1)},
                {FullRemote}, {1}, {"klines"},
                {[net |-> {Http(418)}, local |-> {}]}, {"ok"})

SpecBreaker == InitBreaker /\ [][Next]_vars

\* Two calls of dump_data with the same arguments: the start date on the first
\* of a month, inside a month, or not given, the end date given or not, with
\* and without is_to_update_existing, with no fault; the calls for the
\* metrics, which have daily archives only; and the calls with no dates given
\* when the network answers 403 where it fails.
InitSync ==
    \/ InitWith({Script(<<"BTCUSDT">>, ds, de, upd, 2) :
                    ds \in {NoDate, 20170115, 20170201, 20170301},
                    de \in {NoDate, 20170302},
                    upd \in {FALSE, TRUE}},
                {FullRemote, LateRemote}, {1, 2}, {"klines"},
                {[net |-> {}, local |-> {}]}, {"ok"})
    \/ InitWith({Script(<<"BTCUSDT">>, ds, NoDate, FALSE, 2) :
                    ds \in {20170301, 20170302}},
                {FullRemote, LateRemote}, {1, 2}, {"metrics"},
                {[net |-> {}, local |-> {}]}, {"ok"})
    \/ InitWith({Script(<<"BTCUSDT">>, NoDate, NoDate, FALSE, 2)},
                {FullRemote}, {1}, {"klines"},
                {[net |-> {Http(403)}, local |-> {}]}, {"ok"})

SpecSync == InitSync /\ [][Next]_vars

\* One call of dump_data for 49 and for 50 symbols, klines and metrics, from
\* the start of the platform and from yesterday, with no fault; and a call
\* for one symbol with the network answering 403 where it fails.
InitSummary ==
    \/ InitWith({Script(NewTickers(n), ds, NoDate, FALSE, 1) :
                    n \in {short_statistics_from - 1, short_statistics_from},
                    ds \in {NoDate, MinusDay(Today)}},
                {FullRemote}, {1}, {"klines", "metrics"},
                {[net |-> {}, local |-> {}]}, {"ok"})
    \/ InitWith({Script(<<"BTCUSDT">>, FirstDayOfMonth(Today), NoDate,
                        FALSE, 1)},
                {FullRemote}, {1}, {"klines"},
                {[net |-> {Http(403)}, local |-> {}]}, {"ok"})

SpecSummary == InitSummary /\ [][Next]_vars

\* The remote of symbols listed in February: no archive of January.
YoungRemote ==
    FullRemote \ {create_filename(t, PlatformFloor, "monthly") : t \in Tickers}

\* The remote of symbols listed two days before the month ended: daily
\* archives from then on and no monthly archive.
FreshRemote ==
    {create_filename(t, d, "daily") :
        t \in Tickers,
        d \in SeqToSet(DatesFrom(MinusDay(MinusDay(FirstDayOfMonth(Today))),
                                 MinusDay(Today), "daily"))}

\* The remote of symbols listed on the second day of the current month.
NewRemote ==
    {create_filename(t, d, "daily") :
        t \in Tickers,
        d \in SeqToSet(DatesFrom(PlusDay(FirstDayOfMonth(Today)),
                                 MinusDay(Today), "daily"))}

\* The start and end dates a caller asks for: none, dates before the platform
\* started, inside and at the ends of months, today and later.
StartDates ==
    {NoDate, 20161215, 20170115, 20170131, 20170228, 20170301, 20170303,
     20170305}

EndDates == {NoDate, 20170131, 20170228, 20170301, 20170310}

\* One call of dump_data for one symbol and one thread with no fault, for
\* every start and end date, remote, data type and answer of the listing; and
\* a call with the network answering 403 where it fails.
InitPlan ==
    \/ InitWith({Script(<<"BTCUSDT">>, ds, de, FALSE, 1) :
                    ds \in StartDates, de \in EndDates},
                {FullRemote, YoungRemote, FreshRemote, NewRemote, {}}, {1},
                {"klines", "metrics"}, {[net |-> {}, local |-> {}]},
                CatalogModes)
    \/ InitWith({Script(<<"BTCUSDT">>, FirstDayOfMonth(Today), NoDate,
                        FALSE, 1)},
                {FullRemote}, {1}, {"klines"},
                {[net |-> {Http(403)}, local |-> {}]}, {"ok"})

SpecPlan == InitPlan /\ [][Next]_vars

\* Local directories before the script starts.  Of BTCUSDT: the month of
\* February with two of its days and a day of March; the same with the days
\* of ETHUSDT, which has no month saved; one day of February alone.
SavedWithMonth ==
    {create_filename("BTCUSDT", 20170201, "monthly"),
     create_filename("BTCUSDT", 20170227, "daily"),
     create_filename("BTCUSDT", 20170228, "daily"),
     create_filename("BTCUSDT", 20170301, "daily")}

SavedTwoSymbols ==
    SavedWithMonth \cup {create_filename("ETHUSDT", 20170228, "daily"),
                         create_filename("ETHUSDT", 20170301, "daily")}

SavedDayOnly == {create_filename("BTCUSDT", 20170228, "daily")}

\* The script calls delete_outdated_daily_results on a directory that holds
\* files already, after no call or one call of dump_data from the first of
\* February on, with no fault or with os.remove failing; and after one call
\* with the network answering 403 where it fails; and on the directory of a
\* dumper of USD-M futures, after no call of dump_data.
InitPrune ==
    \/ InitOf({Dumper("um", "klines", "1m")},
              {Script(<<"BTCUSDT">>, 20170201, NoDate, FALSE, 0)},
              {FullRemote}, {1}, {[net |-> {}, local |-> {}]}, {"ok"},
              {SavedWithMonth})
    \/ InitFrom({Script(<<"BTCUSDT">>, 20170201, NoDate, FALSE, n) :
                    n \in {0, 1}},
                {FullRemote}, {1}, {"klines"},
                {[net |-> {}, local |-> {}],
                 [net |-> {}, local |-> DeleteFaults]},
                {"ok"},
                {{}, SavedWithMonth, SavedTwoSymbols, SavedDayOnly})
    \/ InitFrom({Script(<<"BTCUSDT">>, FirstDayOfMonth(Today), NoDate,
                        FALSE, 1)},
                {FullRemote}, {1}, {"klines"},
                {[net |-> {Http(403)}, local |-> {}]}, {"ok"},
                {SavedDayOnly})

SpecPrune == InitPrune /\ [][Next]_vars

\* One call of dump_data for two symbols and the first two days of March,
\* with two threads and no fault, the archive of yesterday published or not;
\* and a call for one symbol with the network answering 403 where it fails.
InitSymbols ==
    \/ InitWith({Script(<<"BTCUSDT", "ETHUSDT">>, FirstDayOfMonth(Today),
                        de, FALSE, 1) : de \in {PlusDay(FirstDayOfMonth(Today)), NoDate}},
                {FullRemote, LateRemote}, {2}, {"klines"},
                {[net |-> {}, local |-> {}]}, {"ok"})
    \/ InitWith({Script(<<"BTCUSDT">>, FirstDayOfMonth(Today), NoDate,
                        FALSE, 1)},
                {FullRemote}, {1}, {"klines"},
                {[net |-> {Http(403)}, local |-> {}]}, {"ok"})

SpecSymbols == InitSymbols /\ [][Next]_vars

\* The dates whose paths are made: the first and the last day of a year and
\* a day with a one-digit month and day.
LayoutDates == {20170101, 20171231, 20240305}

\* The paths of one file are made, for any symbol, period and date.
Locate ==
    /\ hist.paths = NoPaths
    /\ \E ticker \in Tickers, timeperiod_per_file \in Periods,
          date_obj \in LayoutDates :
           hist' = [hist EXCEPT !.paths =
                        Paths(ticker, date_obj, timeperiod_per_file)]
    /\ UNCHANGED <<config_vars, breaker, stats,
                   dict_new_points_saved_by_ticker, files, dirs, now, mpc, run,
                   pool, thr>>

NextLayout == Locate

\* A dumper of every asset class and data type that __init__ accepts, with
\* data_frequency "1m" or "1h".
InitLayout ==
    InitOf(Dumpers(AssetClasses,
                   UNION {DICT_DATA_TYPES_BY_ASSET[a] : a \in AssetClasses},
                   {"1m", "1h"}),
           {Script(<<"BTCUSDT">>, NoDate, NoDate, FALSE, 0)}, {{}}, {1},
           {[net |-> {}, local |-> {}]}, {"ok"}, {{}})

SpecLayout == InitLayout /\ [][NextLayout]_vars

\* The first day of March of BTCUSDT is saved already.
SavedFirstOfMonth ==
    {create_filename("BTCUSDT", FirstDayOfMonth(Today), "daily")}

\* The pairs a caller asks for: the first two days of March of one symbol,
\* or of two symbols in turn.
PairsToDump ==
    {<<<<"BTCUSDT", 20170301>>, <<"BTCUSDT", 20170302>>>>,
     <<<<"BTCUSDT", 20170301>>, <<"ETHUSDT", 20170301>>,
       <<"BTCUSDT", 20170302>>, <<"ETHUSDT", 20170302>>>>}

\* One call of dump_specific_pairs, with is_to_update_existing or without,
\* on an empty directory or one that holds a file asked for, with one thread
\* or two and no fault; and a call with one thread and the network answering
\* 500 where it fails.  The breaker does not break in so few fetches, so no
\* time passes but in the sleeps.
InitPairs ==
    \/ InitFrom({PairsScript(pairs, update, 1) :
                    pairs \in PairsToDump, update \in BOOLEAN},
                {FullRemote, LateRemote}, {1, 2}, {"klines"},
                {[net |-> {}, local |-> {}]}, {"ok"},
                {{}, SavedFirstOfMonth})
    \/ InitFrom({PairsScript(pairs, FALSE, 1) : pairs \in PairsToDump},
                {FullRemote}, {1}, {"klines"},
                {[net |-> {Http(500)}, local |-> {}]}, {"ok"},
                {SavedFirstOfMonth})

NextPairs ==
    \/ DumpSpecificPairs
    \/ PairsPass
    \/ PairsJoin
    \/ PrintDumpStatistics
    \/ \E w \in Threads : BeginFetch(w)
    \/ \E w \in Threads : NetResponse(w)
    \/ \E w \in Threads : Wake(w)

SpecPairs == InitPairs /\ [][NextPairs]_vars

\* The main thread goes on while it can, and so does every thread of the
\* pool: a request that is sent ends, with an answer, an error or a timeout,
\* and a sleep ends.
Fairness ==
    /\ WF_vars(DumpData \/ MonthlyPass \/ DailyPass \/ PoolJoin
                   \/ PrintDumpStatistics)
    /\ \A w \in Threads :
           WF_vars(BeginFetch(w) \/ NetResponse(w) \/ Wake(w))

\* The runs for two symbols, and a run with no dates given and one thread,
\* the network answering 418.
InitTermination ==
    \/ InitSymbols
    \/ InitWith({Script(<<"BTCUSDT">>, NoDate, NoDate, FALSE, 1)},
                {FullRemote}, {1}, {"klines"},
                {[net |-> {Http(418)}, local |-> {}]}, {"ok"})

SpecTermination == InitTermination /\ [][Next]_vars /\ Fairness

\* A field of the dumper that __init__ has not set yet.
Unset == "unset"

\* The arguments a caller gives __init__: asset classes, data types and
\* frequencies that the program knows and some that it does not, and
\* max_concurrent_downloads given or not.
InitArguments ==
    [asset_class : {"spot", "um", "cm", "coin"},
     data_type : {"klines", "trades", "metrics", "fundingRate",
                  "markPriceKlines", "ticks"},
     data_frequency : {"1m", "1h", "7m", ""},
     max_concurrent_downloads : {0, 2}]

\* The caller constructs a dumper and calls nothing else.
ConstructScript(arguments) ==
    Script(<<>>, NoDate, NoDate, FALSE, 0) @@ arguments

\* __init__: the arguments are checked in turn and a ValueError leaves; else
\* the fields of the dumper are set.  The lines printed before the checks
\* take the time of the module's own file: they touch no field, nothing
\* under path_dir_where_to_dump and no network.
Construct ==
    /\ mpc = "new"
    /\ IF init_raises(script.asset_class, script.data_type,
                      script.data_frequency)
       THEN /\ mpc' = "raised"
            /\ UNCHANGED <<max_concurrent_downloads, asset_class, data_type,
                           data_frequency, breaker, stats,
                           dict_new_points_saved_by_ticker>>
       ELSE /\ data_frequency' =
                   init_data_frequency(script.data_type, script.data_frequency)
            /\ dict_new_points_saved_by_ticker' = EmptyDict
            /\ asset_class' = script.asset_class
            /\ data_type' = script.data_type
            /\ max_concurrent_downloads' =
                   init_max_concurrent_downloads(
                       script.data_type, script.max_concurrent_downloads)
            /\ breaker' = NewBreaker
            /\ stats' = NewStats
            /\ mpc' = "idle"
    /\ UNCHANGED <<files, dirs, remote, catalog, net_faults, local_faults,
                   now, script, run, pool, thr, hist>>

NextConstruct == Construct

\* No dumper is made yet; path_dir_where_to_dump is empty or holds a file.
InitConstruct ==
    /\ max_concurrent_downloads = Unset
    /\ asset_class = Unset
    /\ data_type = Unset
    /\ data_frequency = Unset
    /\ breaker = Unset
    /\ stats = Unset
    /\ dict_new_points_saved_by_ticker = Unset
    /\ files \in {{}, SavedFirstOfMonth}
    /\ dirs = {[ticker |-> f.ticker, period |-> f.period] : f \in files}
    /\ remote = FullRemote
    /\ catalog = "ok"
    /\ net_faults = {}
    /\ local_faults = {}
    /\ now = StartTime
    /\ \E arguments \in InitArguments : script = ConstructScript(arguments)
    /\ mpc = "new"
    /\ run = NoRun
    /\ pool = NoPool
    /\ thr = [w \in Threads |-> IdleThread]
    /\ hist = NewHist

SpecConstruct == InitConstruct /\ [][NextConstruct]_vars

\* A call of _download_raw_file whose check of the breaker writes nothing.
ChecksBreaker(w) == ~cooldown_passed(breaker, now) /\ BeginFetch(w)

\* The steps of the program with the reset of the breaker in its two steps:
\* a call that finds the reset time passed reads, then writes.
NextCooldown ==
    \/ DumpData
    \/ MonthlyPass
    \/ DailyPass
    \/ PoolJoin
    \/ PrintDumpStatistics
    \/ \E w \in Threads : ChecksBreaker(w)
    \/ \E w \in Threads : ReadsCooldown(w)
    \/ \E w \in Threads : ResetsBreaker(w)
    \/ \E w \in Threads : NetResponse(w)
    \/ Tick

\* One call of dump_data for one symbol and the three days of March, with two
\* threads, the network answering 418 where it fails.
InitCooldown ==
    InitWith({Script(<<"BTCUSDT">>, FirstDayOfMonth(Today), NoDate, FALSE, 1)},
             {FullRemote}, {2}, {"klines"},
             {[net |-> {Http(418)}, local |-> {}]}, {"ok"})

SpecCooldown == InitCooldown /\ [][NextCooldown]_vars

\* The remote with no archive for the first day of this month.
GapRemote ==
    FullRemote
        \ {create_filename(t, FirstDayOfMonth(Today), "daily") :
              t \in Tickers}

\* One call of dump_data for one symbol, from February on, with one thread,
\* the remote lacking the first day of March and the network answering 403
\* where it fails.
InitNotFound ==
    InitWith({Script(<<"BTCUSDT">>, 20170201, NoDate, FALSE, 1)},
             {GapRemote}, {1}, {"klines"},
             {[net |-> {Http(403)}, local |-> {}]}, {"ok"})

SpecNotFound == InitNotFound /\ [][Next]_vars

\* Two calls of dump_data for two symbols and the first two days of March,
\* with one thread, the network answering 418 where it fails: the breaker
\* that a fetch of a symbol breaks is the breaker of the fetches of the
\* symbols and of the calls after it.  No request is tried again after a
\* 418, so no thread sleeps.
InitScope ==
    InitWith({Script(<<"BTCUSDT", "ETHUSDT">>, FirstDayOfMonth(Today),
                     PlusDay(FirstDayOfMonth(Today)), FALSE, 2)},
             {FullRemote}, {1}, {"klines"},
             {[net |-> {Http(418)}, local |-> {}]}, {"ok"})

NextScope ==
    \/ DumpData
    \/ MonthlyPass
    \/ DailyPass
    \/ PoolJoin
    \/ PrintDumpStatistics
    \/ DeleteOutdatedDailyResults
    \/ \E w \in Threads : BeginFetch(w)
    \/ \E w \in Threads : NetResponse(w)
    \/ Tick

SpecScope == InitScope /\ [][NextScope]_vars /\ Fairness

\* The first day of March and yesterday of BTCUSDT are saved already.
SavedDaysOfMonth ==
    {create_filename("BTCUSDT", date_obj, "daily") :
        date_obj \in {FirstDayOfMonth(Today), MinusDay(Today)}}

\* One call of dump_data for one symbol and the days of March, with one
\* thread, with is_to_update_existing or without, on a directory that holds
\* two of the days, the archive of yesterday not published: with no fault,
\* with the network answering 403 where it fails, and with extractall
\* raising.
InitRefetch ==
    InitFrom({Script(<<"BTCUSDT">>, FirstDayOfMonth(Today), NoDate, upd, 1) :
                 upd \in {FALSE, TRUE}},
             {LateRemote}, {1}, {"klines"},
             {[net |-> {}, local |-> {}],
              [net |-> {Http(403)}, local |-> {}],
              [net |-> {}, local |-> {"unzip_error"}]},
             {"ok"}, {SavedDaysOfMonth})

SpecRefetch == InitRefetch /\ [][Next]_vars

\* ------------------------------------------------------------------------
\* Properties
\* ------------------------------------------------------------------------

\* The breaker b is Open at clock t: _check_circuit_breaker would return True.
Open(b, t) == check_circuit_breaker(b, t).open

\* In this step thread w sends a request: the first attempt of a fetch, or
\* the attempt after a sleep.
Sends(w) == thr[w].pc # "net" /\ thr'[w].pc = "net"

\* In this step an attempt of thread w ends; thr'[w].resp is what it got.
Ends(w) == thr[w].pc = "net" /\ thr'[w].pc # "net"

\* In this step thread w takes a task and calls _download_raw_file.
Calls(w) ==
    /\ thr[w].pc = "idle"
    /\ pool'.next = pool.next + 1
    /\ thr'[w].date = pool.list_args[pool.next]

\* The fetch of thread w returns in this step, with the outcome, and without
\* a sleep or an attempt more.
ReturnsAtOnce(w, outcome) ==
    /\ thr'[w].pc = "idle"
    /\ thr'[w].outcome = outcome
    /\ thr'[w].sleeps = thr[w].sleeps
    /\ thr'[w].attempt = thr[w].attempt
    /\ stats'.request_count = stats.request_count
    /\ now' = now

\* C1: while the breaker is Open no thread sends a request, be it the first
\* attempt of a fetch or a retry of a fetch that was in its retry loop when
\* the breaker opened.
C1_NoRequestWhileOpen ==
    [][\A w \in Threads : Sends(w) => ~Open(breaker, now')]_vars

\* C2: a fetch called after five or more consecutive fetches that each ended
\* Failed, before the cooldown can have passed, is Skipped and sends nothing;
\* and a fetch called once the cooldown of an Open breaker has passed sends
\* a request.
C2_SkippedAfterThreshold ==
    [][\A w \in Threads :
          /\ (/\ Calls(w)
              /\ hist.consec_failed >= circuit_breaker_threshold
              /\ now - StartTime < circuit_breaker_reset_time) =>
                 /\ thr'[w].outcome = "Skipped"
                 /\ stats' = stats
          /\ (/\ Calls(w)
              /\ breaker.is_circuit_broken
              /\ ~Open(breaker, now)) =>
                 thr'[w].pc = "net"]_vars

\* C3: a 404 ends the fetch at once with NotFound: no retry and no sleep, the
\* breaker as it was, the not-found counter one higher and the failed counter
\* as it was.
C3_NotFoundEndsFetch ==
    [][\A w \in Threads :
          (Ends(w) /\ thr'[w].resp = NotFoundResponse) =>
              /\ ReturnsAtOnce(w, "NotFound")
              /\ breaker' = breaker
              /\ stats'.not_found_requests = stats.not_found_requests + 1
              /\ stats'.failed_requests = stats.failed_requests]_vars

\* A 404 came on the second or third attempt of a fetch whose earlier
\* failures the breaker had counted.
C3_Witness ==
    \E w \in Threads :
        /\ thr[w].outcome = "NotFound"
        /\ thr[w].resp = NotFoundResponse
        /\ thr[w].attempt >= 1
        /\ breaker.circuit_breaker_failures >= 1
        /\ stats.not_found_requests = 1

\* C4: a 418 ends the fetch at once with Failed, without a retry or a sleep,
\* and leaves the breaker Open whatever the failure counter was; a fetch
\* called while the breaker is Open is Skipped and sends nothing.
C4_BanOpensBreaker ==
    [][\A w \in Threads :
          /\ (Ends(w) /\ thr'[w].resp = Http(418)) =>
                 /\ ReturnsAtOnce(w, "Failed")
                 /\ breaker'.is_circuit_broken
                 /\ Open(breaker', now')
          /\ (Calls(w) /\ Open(breaker, now)) =>
                 /\ thr'[w].outcome = "Skipped"
                 /\ thr'[w].pc = "idle"
                 /\ stats' = stats]_vars

\* The first request of the dumper got a 418, with the failure counter at 0,
\* and the breaker is Open.
C4_Witness ==
    \E w \in Threads :
        /\ thr[w].resp = Http(418)
        /\ thr[w].outcome = "Failed"
        /\ stats.request_count = 1
        /\ Open(breaker, now)

\* The rate-limit class: 403, 429, 503, and a transport error of whichever
\* exception type whose message shows a TLS or connection-reset failure.
RateLimitClass(r) ==
    \/ r.exc = "HTTPError" /\ r.code \in {403, 429, 503}
    \/ r.exc \in {"URLError", "Exception"} /\ r.msg \cap Keywords # {}

\* The errors that are neither 404, 418 nor of the rate-limit class.
OtherClass(r) ==
    /\ r \in Faults
    /\ ~is_not_found(r)
    /\ ~is_ip_ban(r)
    /\ ~RateLimitClass(r)

\* The attempt of thread w that ends in this step is counted by the breaker,
\* and then the thread sleeps `unit` * 2^attempt seconds if an attempt is
\* left, else its fetch ends Failed.
CountedAndBackedOff(w, unit) ==
    /\ breaker'.circuit_breaker_failures = breaker.circuit_breaker_failures + 1
    /\ IF thr[w].attempt < max_retries - 1
       THEN /\ thr'[w].pc = "sleep"
            /\ thr'[w].wake_at = now + unit * Pow2(thr[w].attempt)
       ELSE /\ thr'[w].pc = "idle"
            /\ thr'[w].outcome = "Failed"

\* C5: every attempt that fails with an error of the rate-limit class is
\* recorded as one breaker failure, the wait before the next attempt is
\* 5 * 2^attempt seconds, and after the third attempt the fetch is Failed.
C5_RateLimitBackoff ==
    [][\A w \in Threads :
          (Ends(w) /\ RateLimitClass(thr'[w].resp)) =>
              CountedAndBackedOff(w, 5)]_vars

\* <<5, 10, ...>>: the k first waits of the rate-limit class
RateLimitSleeps(k) == [i \in 1..k |-> 5 * Pow2(i - 1)]

\* C6: when the only errors of the network are of the rate-limit class, a
\* fetch that ends Saved after k failed attempts has slept k times, 5 * 2^0
\* to 5 * 2^(k-1) seconds in that order, and a fetch whose three attempts
\* failed has slept twice, 5 and 10 seconds.
C6_SleepsOfAFetch ==
    (net_faults # {} /\ \A f \in net_faults : RateLimitClass(f)) =>
        \A w \in Threads :
            /\ thr[w].outcome = "Saved" =>
                   /\ thr[w].attempt \in 0..(max_retries - 1)
                   /\ thr[w].sleeps = RateLimitSleeps(thr[w].attempt)
            /\ thr[w].outcome = "Failed" =>
                   thr[w].sleeps = RateLimitSleeps(max_retries - 1)

\* C7: every attempt that fails with an error that is neither 404, 418 nor
\* of the rate-limit class is counted by the breaker, the wait before the
\* next attempt is 2^attempt seconds, and after the third attempt the fetch
\* is Failed.
C7_OtherErrorsCounted ==
    [][\A w \in Threads :
          (Ends(w) /\ OtherClass(thr'[w].resp)) =>
              CountedAndBackedOff(w, 1)]_vars

\* C8: when the first call of dump_data without is_to_update_existing saved
\* every bucket it planned, the second call with the same arguments
\* dispatches no fetch.
C8_SecondRunFetchesNothing ==
    (/\ hist.ncalls = 2
     /\ hist.first_all_saved
     /\ ~script.is_to_update_existing) =>
        hist.fetches = 0

\* The threads that are inside _download_raw_file.
InFlight == {w \in Threads : thr[w].pc # "idle"}

\* C9: the pool has min(pending buckets, max concurrency) threads, and the
\* fetches in flight are never more than the max concurrency.  The fetches
\* are counted where they run, not by the gauge of the program, which
\* threads that interleave leave wrong (C25).
C9_ConcurrencyBound ==
    /\ Cardinality(InFlight) <= max_concurrent_downloads
    /\ mpc = "pool" =>
           /\ pool.processes <= max_concurrent_downloads
           /\ pool.processes <= Len(pool.list_args)
           /\ pool.processes \in {max_concurrent_downloads,
                                  Len(pool.list_args)}

\* Three buckets are pending for a pool of two threads, and two fetches are
\* in flight with the third bucket waiting.
C9_Witness ==
    /\ max_concurrent_downloads = 2
    /\ Len(pool.list_args) = 3
    /\ pool.next = 3
    /\ Cardinality(InFlight) = 2

\* C10: no error of a bucket aborts the symbol or the run: when the main
\* thread has stopped after a call of dump_data, every symbol of the call has
\* had its daily pass.
C10_RunNeverAborted ==
    (hist.ncalls > 0 /\ mpc \in {"idle", "raised"}) =>
        \A i \in 1..Len(script.tickers) :
            /\ script.tickers[i] \in DOMAIN dict_new_points_saved_by_ticker
            /\ "daily" \in
                   DOMAIN dict_new_points_saved_by_ticker[script.tickers[i]]

\* C11: a call of dump_data with no fault of the local disk never ends with
\* an exception, and when the loop over the symbols is done the record holds,
\* for every symbol, the entries the summary reads (both periods, when the
\* short summary is the one printed).
C11_SummaryNeverRaises ==
    /\ local_faults = {} => mpc # "raised"
    /\ (/\ mpc = "stats"
        /\ Cardinality(DOMAIN dict_new_points_saved_by_ticker)
               >= short_statistics_from) =>
           \A t \in DOMAIN dict_new_points_saved_by_ticker :
               Periods \subseteq DOMAIN dict_new_points_saved_by_ticker[t]

\* The dates of the buckets given to the pool, and the dates its threads are
\* fetching.
Dispatched ==
    SeqToSet(pool.list_args) \cup {thr[w].date : w \in InFlight}

C13_NothingAfterYesterday ==
    mpc = "pool" =>
        \A d \in Dispatched :
            IF pool.period = "daily" THEN d < Today
            ELSE StrDate(d, "monthly") < StrDate(Today, "monthly")

\* The caller asked for dates up to a day after today, and the daily bucket of
\* yesterday, the last of the pool, is being fetched.
C13_Witness ==
    /\ mpc = "pool"
    /\ pool.period = "daily"
    /\ script.date_end > Today
    /\ pool.list_args[Len(pool.list_args)] = MinusDay(Today)
    /\ \E w \in InFlight : thr[w].date = MinusDay(Today)

\* The calendar days from a to b.
DaysOf(a, b) == {d \in a..b : Day(d) \in 1..DaysInMonth(Year(d), Month(d))
                               /\ Month(d) \in 1..12}

\* The day d has a planned bucket: before the first day of the month of
\* date_end a monthly bucket of its month, from that day on its daily bucket.
Covered(d, date_end) ==
    IF d < FirstDayOfMonth(date_end)
    THEN \E b \in SeqToSet(hist.plan["monthly"].list_dates) :
             StrDate(b, "monthly") = StrDate(d, "monthly")
    ELSE d \in SeqToSet(hist.plan["daily"].list_dates)

\* C14: when the two passes of a symbol are done (data type with monthly
\* archives, the remote holding the symbol from 2017-01-01), every day of the
\* clamped interval from date_start to date_end has a planned bucket: a
\* monthly one of its month before the first day of the month of date_end, a
\* daily one from there on.
C14_EveryDayPlanned ==
    (/\ mpc = "stats"
     /\ data_type # "metrics"
     /\ remote = FullRemote /\ catalog = "ok"
     /\ run.date_start <= run.date_end) =>
        \A d \in DaysOf(run.date_start, run.date_end) :
            Covered(d, run.date_end)

\* list is the plan the claim describes for date_start, date_end and period.
IsPlan(list, date_start, date_end, period) ==
    LET step(d) == IF period = "monthly" THEN PlusMonth(d) ELSE PlusDay(d)
    IN  /\ list # <<>>
        /\ \A i \in 1..Len(list) :
               /\ date_start <= list[i] /\ list[i] <= date_end
               /\ period = "monthly" => Day(list[i]) = 1
        /\ \A i \in 1..(Len(list) - 1) :
               list[i] < list[i + 1] /\ list[i + 1] = step(list[i])
        /\ step(list[Len(list)]) > date_end

\* In this step the pass of period p plans its buckets and ends or starts its
\* pool.
Plans(p) ==
    /\ mpc = p
    /\ mpc' \notin {p, "raised"}
    /\ hist'.plan[p].date_start # NoDate

\* The dates of list whose csv file of the symbol and period is not there.
WithoutFile(list, ticker, p) ==
    SelectSeq(list, LAMBDA d : create_filename(ticker, d, p) \notin files)

\* C15: the buckets a pass gives to the pool are, each once and in order, the
\* planned buckets without a local file, or every planned bucket when
\* is_to_update_existing is set.
C15_DispatchedIsPlanMinusInventory ==
    [][\A p \in Periods :
          Plans(p) =>
              LET planned == hist'.plan[p].list_dates
                  dispatched == IF mpc' = "pool" THEN pool'.list_args
                                ELSE <<>>
              IN  dispatched =
                      IF script.is_to_update_existing THEN planned
                      ELSE WithoutFile(planned,
                                       run.list_trading_pairs[run.i], p)]_vars

\* C16: for date_start <= date_end the list _create_list_dates_for_timeperiod
\* returned is strictly increasing and inside [date_start, date_end], steps by
\* one day or one month, is anchored on the first day of the month when
\* monthly, and is maximal.
C16_PlanIsAnchoredAndMaximal ==
    \A p \in Periods :
        LET plan == hist.plan[p]
        IN  (plan.date_start # NoDate /\ plan.date_start <= plan.date_end) =>
                IsPlan(plan.list_dates, plan.date_start, plan.date_end, p)

\* The caller gave both dates and the start is after the end.
InvalidRange ==
    /\ script.date_start # NoDate
    /\ script.date_end # NoDate
    /\ script.date_start > script.date_end

\* C17: a call of dump_data with date_start after date_end ends at its entry
\* and dispatches no fetch, and no call of _create_list_dates_for_timeperiod
\* with date_start after date_end returns a list.
C17_InvalidRangeRejected ==
    /\ InvalidRange =>
           /\ mpc \in {"idle", "raised"}
           /\ hist.fetches = 0
    /\ \A p \in Periods :
           hist.plan[p].date_start <= hist.plan[p].date_end

\* The keys of a period the remote catalog lists for a symbol.
ListedKeys(ticker, p) == {k \in remote : k.ticker = ticker /\ k.period = p}

\* The least date of a non-empty set of listed keys.
Earliest(keys) ==
    CHOOSE d \in {KeyDate(k) : k \in keys} :
        \A k \in keys : d <= KeyDate(k)

\* The floor of a symbol as the catalog's listings define it: the earliest
\* monthly archive, else the earliest daily archive, else today.
RemoteFloor(ticker) ==
    IF ListedKeys(ticker, "monthly") # {}
    THEN Earliest(ListedKeys(ticker, "monthly"))
    ELSE IF ListedKeys(ticker, "daily") # {}
    THEN Earliest(ListedKeys(ticker, "daily"))
    ELSE Today

\* C18: with the catalog answering, the floor found for a symbol is its
\* earliest monthly archive if the catalog lists one, else its earliest daily
\* archive if it lists one, else today.
C18_FloorIsEarliestListed ==
    catalog = "ok" =>
        \A t \in DOMAIN hist.min_start_date :
            hist.min_start_date[t] = RemoteFloor(t)

\* The lookup of the floor of a symbol fails: at the monthly listing, at the
\* daily listing it falls back to, or at a key it cannot parse.
CatalogFails(ticker) ==
    LET no_monthly ==
            MinListed(ListedKeys(ticker, "monthly"), FirstDayOfMonth(Today))
                = FirstDayOfMonth(Today)
    IN  \/ catalog = "down"
        \/ catalog = "daily_down" /\ no_monthly
        \/ ParseRaises(ListedKeys(ticker, "monthly"))
        \/ no_monthly /\ ParseRaises(ListedKeys(ticker, "daily"))

\* C19: when the lookup of the floor fails, the call does not raise, the floor
\* of the symbol is today, and no bucket of the symbol is given to the pool.
C19_FailedLookupSkipsSymbol ==
    /\ \A t \in DOMAIN hist.min_start_date :
           CatalogFails(t) => hist.min_start_date[t] = Today
    /\ mpc = "pool" => ~CatalogFails(pool.ticker)
    /\ (/\ mpc = "raised"
        /\ run.i \in DOMAIN run.list_trading_pairs) =>
           ~CatalogFails(run.list_trading_pairs[run.i])

\* The saved daily files with the file of their month saved for the same
\* symbol.
DailyWithMonth ==
    {f \in files :
        /\ f.period = "daily"
        /\ [ticker |-> f.ticker, period |-> "monthly", date |-> f.date \div 100]
               \in files}

\* In this step delete_outdated_daily_results runs.
Prunes == hist.pruned.status = "no" /\ hist'.pruned.status # "no"

\* C20: delete_outdated_daily_results removes the daily files that have the
\* file of their month saved for the same symbol, but those whose deletion
\* fails, and no other file; it removes all of them when no deletion fails.
C20_PruneDeletesExactlyOutdated ==
    [][Prunes =>
          /\ hist'.pruned.unable_to_delete \subseteq DailyWithMonth
          /\ files' = files \ (DailyWithMonth \ hist'.pruned.unable_to_delete)
          /\ "delete_error" \notin local_faults =>
                 hist'.pruned.unable_to_delete = {}]_vars

\* In this step the pool of a pass is joined and its result is recorded.
Joins == mpc = "pool" /\ mpc' # "pool"

\* C21: when the archive of a bucket is downloaded and its extraction or its
\* deletion fails, the call ends without the date: the bucket is not among
\* the saved ones the pass counts, and the pass goes on.
C21_UnpackFailureIsNotSaved ==
    [][/\ \A w \in Threads :
              (Ends(w) /\ thr'[w].unpack \in {"unzip_error", "remove_error"}) =>
                  /\ thr'[w].date \notin pool'.saved
                  /\ pool'.done = pool.done + 1
                  /\ mpc' = "pool"
       /\ Joins =>
              dict_new_points_saved_by_ticker'[pool.ticker][pool.period]
                  = Cardinality(pool.saved)]_vars

\* The extraction of the first day failed, the days after it were fetched and
\* saved, and the pass counted two days.
C21_Witness ==
    /\ mpc = "stats"
    /\ local_faults = {"unzip_error"}
    /\ create_filename("BTCUSDT", 20170301, "daily") \notin files
    /\ create_filename("BTCUSDT", 20170302, "daily") \in files
    /\ create_filename("BTCUSDT", 20170303, "daily") \in files
    /\ dict_new_points_saved_by_ticker["BTCUSDT"]["daily"] = 2

\* In this step the script enters dump_data.
EntersDumpData == hist'.ncalls = hist.ncalls + 1

\* C22: the request counters are reset when dump_data is entered, so that
\* what a call reports at its end counts the requests of that call alone: no
\* more requests than three for each fetch of the call.
C22_StatsResetAtEntry ==
    /\ [][EntersDumpData => stats' = NewStats]_vars
    /\ [](mpc = "stats" => stats.request_count <= max_retries * hist.fetches)

\* The counters print_final_benchmark reports are the numbers of attempts
\* made and of calls ended, by kind, since the dumper was made.
ReportsTotals ==
    /\ stats.request_count = hist.made.attempts
    /\ stats.successful_requests = hist.made.successes
    /\ stats.not_found_requests = hist.made.not_found
    /\ stats.failed_requests = hist.made.failed

\* The counters that only count up.
Totals ==
    {"request_count", "successful_requests", "not_found_requests",
     "failed_requests"}

\* C23: the counters accumulate over the calls of dump_data: no step
\* decreases one, and between the calls they hold the totals since the dumper
\* was made.
C23_CountersAccumulate ==
    /\ [][\A c \in Totals : stats'[c] >= stats[c]]_vars
    /\ [](mpc = "idle" => ReportsTotals)

\* The pool has run every task and no thread of it is at work.
Drained == mpc = "pool" /\ pool.done = Len(pool.list_args)

\* C24: no update of a counter by a thread of a pool is lost: when the pool
\* is drained the counters of the requests are the numbers of the attempts
\* made and of the calls ended, by kind, and the counter of the breaker is the
\* number of the failures recorded since it was last reset.
C24_NoUpdateLost ==
    Drained =>
        /\ ReportsTotals
        /\ breaker.circuit_breaker_failures = hist.recorded

\* C25: the gauge of the active connections is never negative, and it is 0
\* whenever no thread is in a fetch.
C25_GaugeBalanced ==
    /\ stats.active_connections >= 0
    /\ (\A w \in Threads : thr[w].pc = "idle") => stats.active_connections = 0

\* C26: every call of a fetch, however it ends, counts one attempt at least:
\* the step that makes the call raises the count of the requests, and the
\* count is never below the number of the calls of the first dump_data.
C26_EveryFetchCounted ==
    /\ [][\A w \in Threads :
              Calls(w) => stats'.request_count >= stats.request_count + 1]_vars
    /\ [](hist.ncalls = 1 => stats.request_count >= hist.fetches)

\* C27: the symbols are processed one after the other: a thread fetches for
\* the symbol the loop of dump_data is at, and a pass is left, for the next
\* pass or the next symbol, only when every fetch it dispatched has come back
\* and no thread is in a fetch.
C27_SymbolsInSequence ==
    [][/\ \A w \in Threads :
              Calls(w) => pool.ticker = run.list_trading_pairs[run.i]
       /\ Joins =>
              /\ InFlight = {}
              /\ pool.next = Len(pool.list_args) + 1
              /\ pool.done = Len(pool.list_args)
       /\ (mpc # "idle" /\ mpc' \notin {"idle", "raised"}) =>
              run'.i \in {run.i, run.i + 1}]_vars

\* The second symbol is being fetched after the first had its daily pass, and
\* a later day of it was saved while an earlier day is still in flight.
C27_Witness ==
    /\ mpc = "pool"
    /\ pool.ticker = "ETHUSDT"
    /\ "BTCUSDT" \in DOMAIN dict_new_points_saved_by_ticker
    /\ "daily" \in DOMAIN dict_new_points_saved_by_ticker["BTCUSDT"]
    /\ \E w \in Threads :
           /\ thr[w].pc = "net"
           /\ \E d \in pool.saved : d > thr[w].date

\* C28: the remote key and the local path of a file are
\* [futures/]<assetClass>/<granularity>/<dataType>/<symbol>[/<frequency>]/
\* <symbol>-<freqOrType>-<date>.<ext>: futures/ exactly for um and cm, the
\* frequency segment and the frequency in the name exactly for the kline
\* family (else the name carries the data type), the date YYYY-MM for monthly
\* and YYYY-MM-DD for daily, zip for the remote object and csv for the local
\* file; the inventory lookup and the fetch use the same directory.
KlineFamily ==
    {"klines", "indexPriceKlines", "markPriceKlines", "premiumIndexKlines"}

DigitAt(n, k) == ToString((n \div (10 ^ k)) % 10)

DateText(d, granularity) ==
    DigitAt(d, 7) \o DigitAt(d, 6) \o DigitAt(d, 5) \o DigitAt(d, 4) \o "-"
    \o DigitAt(d, 3) \o DigitAt(d, 2)
    \o (IF granularity = "daily"
        THEN "-" \o DigitAt(d, 1) \o DigitAt(d, 0) ELSE "")

KeyOf(symbol, granularity, d, ext) ==
    (IF asset_class \in {"um", "cm"} THEN <<"futures">> ELSE <<>>)
    \o <<asset_class, granularity, data_type, symbol>>
    \o (IF data_type \in KlineFamily THEN <<data_frequency>> ELSE <<>>)
    \o <<symbol \o "-"
         \o (IF data_type \in KlineFamily THEN data_frequency ELSE data_type)
         \o "-" \o DateText(d, granularity) \o "." \o ext>>

C28_KeyLayout ==
    hist.paths # NoPaths =>
        LET p == hist.paths
        IN  /\ p.url_file_to_download =
                   base_url \o KeyOf(p.ticker, p.period, p.date, "zip")
            /\ p.path_zip_raw_file = KeyOf(p.ticker, p.period, p.date, "zip")
            /\ p.path_where_to_save = KeyOf(p.ticker, p.period, p.date, "csv")
            /\ dirname(p.path_where_to_save) = dirname(p.path_zip_raw_file)
            /\ dirname(p.path_zip_raw_file) = p.dir_where_to_save
            /\ data_type \in KlineFamily => data_frequency \in {"1m", "1h"}

C28_Witness ==
    /\ hist.paths.url_file_to_download =
           <<"https://data.binance.vision/data", "futures", "cm", "daily",
             "markPriceKlines", "ETHUSDT", "1h",
             "ETHUSDT-1h-2024-03-05.zip">>
    /\ hist.paths.path_where_to_save =
           <<"futures", "cm", "daily", "markPriceKlines", "ETHUSDT", "1h",
             "ETHUSDT-1h-2024-03-05.csv">>

\* C29: a call of dump_specific_pairs without is_to_update_existing fetches
\* no pair whose daily file is saved already.
C29_PairsSkipExisting ==
    [][\A w \in Threads :
           (Calls(w) /\ ~script.is_to_update_existing) =>
               create_filename(pool.ticker, thr'[w].date, "daily")
                   \notin files]_vars

\* The bucket of the task thread w takes in this step.
Taken(w) == create_filename(pool.ticker, thr'[w].date, pool.period)

DumperFields ==
    <<max_concurrent_downloads, asset_class, data_type, data_frequency,
      breaker, stats, dict_new_points_saved_by_ticker>>

Outside == <<files, dirs, remote, hist>>

\* The arguments of the constructor are a configuration error.
ConfigurationError ==
    \/ script.asset_class \notin {"spot", "um", "cm"}
    \/ script.data_type \notin DICT_DATA_TYPES_BY_ASSET[script.asset_class]
    \/ /\ script.data_type \in KlineFamily
       /\ script.data_frequency \notin DATA_FREQUENCY_ENUM

Closes == breaker.is_circuit_broken /\ ~breaker'.is_circuit_broken

\* C32: under every interleaving the breaker closes only in the check at the
\* start of a fetch, and only when the reset time has passed since the last
\* failure recorded.
C32_ClosesOnlyAfterCooldown ==
    [][Closes =>
          /\ \E w \in Threads : thr[w].pc \in {"idle", "reset"}
                                 /\ thr'[w].pc = "net"
          /\ now' - breaker.circuit_breaker_last_failure
                 >= circuit_breaker_reset_time]_vars

\* C33: a download that succeeds sets the failure counter to zero and leaves
\* the rest of the breaker as it was: broken or not, and the time of the last
\* failure; a broken breaker closes only in the check at the start of a
\* fetch.
C33_SuccessResetsCounterOnly ==
    [][/\ \A w \in Threads :
              (Ends(w) /\ thr'[w].resp = OkResponse) =>
                  breaker' = [breaker EXCEPT !.circuit_breaker_failures = 0]
       /\ Closes => \E w \in Threads : thr[w].pc \in {"idle", "reset"}
                                       /\ thr'[w].pc = "net"]_vars

\* A download ended well while the breaker was broken by a 418: the counter
\* is zero and the breaker is still Open.
C33_Witness ==
    /\ breaker.is_circuit_broken
    /\ breaker.circuit_breaker_failures = 0
    /\ Open(breaker, now)
    /\ \E w \in Threads : thr[w].outcome = "Saved"
    /\ \E w \in Threads : thr[w].resp = Http(418)

\* The counters of the outcomes of the fetches.
OutcomeCounters ==
    {"successful_requests", "not_found_requests", "failed_requests"}

CounterOf(outcome) ==
    IF outcome = "Saved" THEN "successful_requests"
    ELSE IF outcome = "NotFound" THEN "not_found_requests"
    ELSE "failed_requests"

\* C34: with one thread, a fetch that sends a request counts one outcome,
\* once, when it returns: the counter of its outcome goes up by one and the
\* other two stay, and no other step moves them; when no fetch is in
\* progress the three counters add up to the fetches that sent a request,
\* and to no more than the attempts counted.
C34_OutcomesPartitionFetches ==
    /\ [][max_concurrent_downloads = 1 =>
              \A w \in Threads :
                  IF thr[w].pc = "net" /\ thr'[w].pc = "idle"
                  THEN \A c \in OutcomeCounters :
                           stats'[c] = stats[c] +
                               (IF c = CounterOf(thr'[w].outcome)
                                THEN 1 ELSE 0)
                  ELSE thr'[w] # thr[w] =>
                           \A c \in OutcomeCounters : stats'[c] = stats[c]]_vars
    /\ []((max_concurrent_downloads = 1 /\ InFlight = {}) =>
              /\ stats.successful_requests + stats.not_found_requests
                     + stats.failed_requests
                     = hist.made.successes + hist.made.not_found
                           + hist.made.failed
              /\ stats.successful_requests + stats.not_found_requests
                     + stats.failed_requests <= stats.request_count)

\* One thread has ended fetches of each outcome, one of them after retries.
C34_Witness ==
    /\ max_concurrent_downloads = 1
    /\ InFlight = {}
    /\ stats.successful_requests >= 1
    /\ stats.failed_requests >= 1
    /\ stats.request_count
           > stats.successful_requests + stats.not_found_requests
                 + stats.failed_requests

\* C35: every bucket a call of dump_data hands to a fetch lies in the
\* interval asked for, after its clamps: no daily bucket is dated before
\* date_start and no bucket is dated after date_end.
C35_DispatchedInsideInterval ==
    \A f \in hist.dispatched :
        /\ KeyDate(f) <= clamp_date_end(script.date_end)
        /\ f.period = "daily" =>
               f.date >= clamp_date_start(script.date_start)


\* C36: under every interleaving of the threads of a pool the gauge of
\* active connections equals the number of threads inside a network
\* attempt, a thread sleeping before a retry not being counted, and the
\* recorded peak is never above the configured max concurrency.
C36_PeakConcurrencySound ==
    /\ stats.active_connections
           = Cardinality({w \in Threads : thr[w].pc = "net"})
    /\ stats.max_concurrent_connections <= max_concurrent_downloads


\* In this step the fetch of thread w ends with the outcome.
EndsWith(w, outcome) ==
    /\ thr[w].pc = "net"
    /\ thr'[w].pc = "idle"
    /\ thr'[w].outcome = outcome

\* In this step thread w takes a task and its fetch is skipped.
IsSkipped(w) ==
    /\ Calls(w)
    /\ thr'[w].pc = "idle"
    /\ thr'[w].outcome = "Skipped"

\* C37: a fetch that ends with NotFound, and one that is Skipped, leave the
\* failure counter of the breaker as it is; every recorded failure adds one
\* to it (a 418 sets it to the threshold), so that failures with only 404
\* responses and skipped calls between them add up, and the breaker is
\* broken once the counter is at the threshold; the counter goes back to
\* zero only in a successful download or in the reset after the reset time.
C37_NotFoundLeavesFailureCounter ==
    /\ [][/\ \A w \in Threads :
                 (EndsWith(w, "NotFound") \/ IsSkipped(w)) =>
                     breaker' = breaker
          /\ \A w \in Threads :
                 (Ends(w) /\ records_failure(thr'[w].resp)) =>
                     breaker'.circuit_breaker_failures =
                         IF is_ip_ban(thr'[w].resp)
                         THEN circuit_breaker_threshold
                         ELSE breaker.circuit_breaker_failures + 1
          /\ breaker'.circuit_breaker_failures
                 < breaker.circuit_breaker_failures =>
                 /\ breaker'.circuit_breaker_failures = 0
                 /\ \/ \E w \in Threads : EndsWith(w, "Saved")
                    \/ /\ cooldown_passed(breaker, now)
                       /\ \E w \in Threads : Calls(w) /\ Sends(w)]_vars
    /\ [](breaker.circuit_breaker_failures >= circuit_breaker_threshold =>
              breaker.is_circuit_broken)

\* Three failures for February, a 404 for the first day of March, and the
\* second failure for its second day breaks the breaker.
C37_Witness ==
    /\ hist.made.successes = 0
    /\ hist.made.not_found = 1
    /\ hist.made.failed = 1
    /\ thr[1].date = PlusDay(FirstDayOfMonth(Today))
    /\ thr[1].pc = "sleep"
    /\ breaker.circuit_breaker_failures = circuit_breaker_threshold
    /\ breaker.is_circuit_broken


\* The breaker is broken and the reset time has not passed since the last
\* failure.
BrokenInCooldown ==
    breaker.is_circuit_broken /\ ~cooldown_passed(breaker, now)

\* The csv files of a symbol and a period on the local disk.
SavedFiles(ticker, period) ==
    {f \in files : f.ticker = ticker /\ f.period = period}

\* C38: the breaker belongs to the dumper: no step of dump_data between the
\* fetches (the entry of a call, the passes from symbol to symbol, the
\* summary) changes it, so once it is broken every fetch taken before the
\* reset time has passed, for whatever symbol and in whatever call, is
\* Skipped with no request sent; the bucket of a skipped fetch is not handed
\* out again in the call and is not counted as saved; and the call ends
\* with its summary.
C38_BreakerScopedToDumper ==
    /\ [][/\ breaker' # breaker =>
                 /\ mpc = "pool" /\ mpc' = "pool"
                 /\ \E w \in Threads : Ends(w) \/ Calls(w)
          /\ \A w \in Threads :
                 (Calls(w) /\ BrokenInCooldown) =>
                     /\ IsSkipped(w)
                     /\ breaker' = breaker
                     /\ stats' = stats
                     /\ files' = files
                     /\ pool'.saved = pool.saved
                     /\ Taken(w) \notin hist.dispatched
                     /\ \A v \in Threads : ~Sends(v)]_vars
    /\ [](\A ticker \in DOMAIN dict_new_points_saved_by_ticker :
              \A period \in DOMAIN dict_new_points_saved_by_ticker[ticker] :
                  dict_new_points_saved_by_ticker[ticker][period]
                      <= Cardinality(SavedFiles(ticker, period)))
    /\ (mpc \notin {"idle", "raised"}) ~> (mpc = "idle")

\* The first request of the first symbol was answered with 418: the fetches
\* left of that symbol, those of the second symbol and those of the second
\* call were skipped, nothing was saved, and both calls have returned.
C38_Witness ==
    /\ mpc = "idle"
    /\ hist.ncalls = 2
    /\ hist.fetches = 4
    /\ stats.request_count = 1
    /\ BrokenInCooldown
    /\ files = {}
    /\ dict_new_points_saved_by_ticker["ETHUSDT"]["daily"] = 0


\* dict_new_points_saved_by_ticker[ticker][period], 0 where the record has
\* no such entry.
SavedCount(ticker, period) ==
    IF /\ ticker \in DOMAIN dict_new_points_saved_by_ticker
       /\ period \in DOMAIN dict_new_points_saved_by_ticker[ticker]
    THEN dict_new_points_saved_by_ticker[ticker][period]
    ELSE 0

\* The sum of the saved counts of the (symbol, period) pairs of keys.
RECURSIVE TotalSaved(_)
TotalSaved(keys) ==
    IF keys = {} THEN 0
    ELSE LET key == CHOOSE k \in keys : TRUE
         IN  SavedCount(key[1], key[2]) + TotalSaved(keys \ {key})

\* C39: after a call of dump_data on a new dumper the saved counts of the
\* record of results, summed over the symbols and the periods, are the
\* counter of successful requests, however the downloads, the extractions
\* and the deletions of the archives ended.
C39_ResultRecordsAgree ==
    (mpc = "idle" /\ hist.ncalls = 1 /\ max_concurrent_downloads = 1) =>
        TotalSaved(Tickers \X {"monthly", "daily"})
            = stats.successful_requests


\* The local inventory of a disk that holds the csv files of local: for
\* each symbol and period, the dates get_all_dates_with_data_for_ticker
\* returns, those of the list from 2017-01-01 to today whose csv file exists.
InventoryOf(local) ==
    [key \in Tickers \X {"monthly", "daily"} |->
        {date_obj \in SeqToSet(create_list_dates_for_timeperiod(
                                   PlatformFloor, Today, key[2])) :
            create_filename(key[1], date_obj, key[2]) \in local}]

Inventory == InventoryOf(files)

\* In this step a fetch of thread w ends without its archive: it is
\* Skipped, or an attempt of it raises (404, a last failure, or a failure
\* before a sleep).
NoDownload(w) ==
    \/ IsSkipped(w)
    \/ Ends(w) /\ thr'[w].resp # OkResponse

\* C40: a fetch that does not download its archive (Skipped, NotFound, or
\* Failed after its attempts) leaves the local inventory as it was, also
\* when is_to_update_existing fetches a bucket that is there already; no
\* step of a fetch takes a bucket out of the inventory; and a bucket comes
\* into the inventory only in the step of its fetch whose download
\* succeeded and whose extraction did not raise.
C40_NoDownloadLeavesInventory ==
    [][/\ \A w \in Threads :
              NoDownload(w) => InventoryOf(files') = Inventory
       /\ (\E w \in Threads : Ends(w) \/ Calls(w)) =>
              \A key \in DOMAIN Inventory :
                  Inventory[key] \subseteq InventoryOf(files')[key]
       /\ \A key \in DOMAIN Inventory :
              \A date_obj \in InventoryOf(files')[key] \ Inventory[key] :
                  \E w \in Threads :
                      /\ EndsWith(w, "Saved")
                      /\ thr'[w].unpack # "unzip_error"
                      /\ TaskFile(w)
                             = create_filename(key[1], date_obj, key[2])]_vars

\* With is_to_update_existing the first day of March, which was there, was
\* fetched again, the fetch failed after its attempts, and the file is
\* still there.
C40_Witness ==
    /\ script.is_to_update_existing
    /\ thr[1].pc = "idle"
    /\ thr[1].date = FirstDayOfMonth(Today)
    /\ thr[1].outcome = "Failed"
    /\ FirstDayOfMonth(Today) \in Inventory[<<"BTCUSDT", "daily">>]

=============================================================================
